---- MODULE Spec2Model ----
(***************************************************************************)
(* Real-time collaboration layer of diagrammatic-api                       *)
(* (src/app/routers/collaboration.py and the services it calls).           *)
(*                                                                         *)
(* Python dicts are functions whose DOMAIN is the set of keys present;     *)
(* Python lists are sequences.  Time (time.time(), asyncio.sleep) is       *)
(* counted in ticks, OneSecond ticks to the second.                        *)
(***************************************************************************)
EXTENDS Integers, Sequences, FiniteSets, TLC

VARIABLES
    now,                 \* time.time(), in ticks
    user_rate_limiters,  \* collaboration.py:48  user_id -> message_type -> RateLimiter
    admitted,            \* history: (user, type) -> times at which is_allowed returned True,
                         \*          kept while inside the trailing one-second window
    diagrams,            \* the diagrams table: diagram_id -> [userId, collaborators]
    debounced_saves,     \* collaboration.py:21  diagram_id -> (time, data, task)
    tasks,               \* the asyncio tasks created for save_after_delay, by creation order
    writes,              \* history: the update_diagram calls issued, in order
    active_connections,  \* collaboration.py:18  diagram_id -> list of (websocket, user_id)
    h,                   \* the handler (collaborate_on_diagram) of each websocket
    alive,               \* whether the transport of each websocket still works
    sent,                \* history: how many times each envelope was delivered to each websocket
    frames,              \* history: the frames handled so far, <<websocket, frame>>
    failures,            \* history: number of transports that have failed so far
    recommendations,     \* confidence_based_filter.py:24  the list passed to filter
    threshold,           \* confidence_based_filter.py:24  the threshold passed, in tenths
    filtered             \* the list filter returned, once it has returned

rlVars == <<user_rate_limiters, admitted>>
storeVars == <<diagrams>>
saveVars == <<debounced_saves, tasks, writes>>
connVars == <<active_connections, h, alive, sent, frames, failures>>
recVars == <<recommendations, threshold, filtered>>
vars == <<now, user_rate_limiters, admitted, diagrams,
          debounced_saves, tasks, writes,
          active_connections, h, alive, sent, frames, failures,
          recommendations, threshold, filtered>>

----------------------------------------------------------------------------
(* Bounds of the model *)

OneSecond == 2          \* ticks per second: the unit of `now - t < 1` and of sleep(5)
RLMaxTime == 3          \* the clock stops here in the limiter specification
SaveMaxTime == 12       \* the clock stops here in the scheduler specification
MaxTasks == 2           \* save tasks created in one behaviour
MaxFrames == 1          \* frames handled in one behaviour
MaxFailures == 2        \* transports that fail in one behaviour
MaxLoopFrames == 172    \* frames one client sends in a behaviour of the message loop

Users == {"u1", "u2", "u3"}
Docs == {"d1", "d2"}
MessageTypes == {"cursor_move", "diagram_update", "ping", "chat"}

----------------------------------------------------------------------------
(* Dict helpers *)

EmptyDict == [k \in {} |-> 0]
Put(d, k, v) == [x \in (DOMAIN d) \cup {k} |-> IF x = k THEN v ELSE d[x]]
\* A deletion that leaves the key in place.
Del_keep(d, k) == d
Del(d, k) == [x \in (DOMAIN d) \ {k} |-> d[x]]
None == "None"
\* dict.get(key), None when the key is absent
Get(f, k) == IF k \in DOMAIN f THEN f[k] ELSE None

----------------------------------------------------------------------------
(* Rate limiter: collaboration.py:24-72 *)

CursorRate == 120
CursorBurst == 50
UpdateRate == 10
UpdateBurst == 5
PingRate == 1
PingBurst == 0
DefaultRate == 10
DefaultBurst == 2

\* RateLimiter.__init__
RateLimiter(max_per_second, burst_allowance) ==
    [max_per_second |-> max_per_second,
     burst_allowance |-> burst_allowance,
     timestamps |-> << >>]

\* A limiter that admits one request more than the cap.
is_allowed_offbyone(rl, t) ==
    LET kept == SelectSeq(rl.timestamps, LAMBDA x : t - x < OneSecond)
    IN  IF Len(kept) > rl.max_per_second + rl.burst_allowance
        THEN [ok |-> FALSE, limiter |-> [rl EXCEPT !.timestamps = kept]]
        ELSE [ok |-> TRUE, limiter |-> [rl EXCEPT !.timestamps = Append(kept, t)]]

\* RateLimiter.is_allowed at time t: the verdict and the limiter afterwards.
is_allowed(rl, t) ==
    LET kept == SelectSeq(rl.timestamps, LAMBDA x : t - x < OneSecond)
    IN  IF Len(kept) >= rl.max_per_second + rl.burst_allowance
        THEN [ok |-> FALSE, limiter |-> [rl EXCEPT !.timestamps = kept]]
        ELSE [ok |-> TRUE, limiter |-> [rl EXCEPT !.timestamps = Append(kept, t)]]

\* The limiter get_rate_limiter constructs for a message type.
NewLimiter(message_type) ==
    IF message_type = "cursor_move" THEN RateLimiter(CursorRate, CursorBurst)
    ELSE IF message_type = "diagram_update" THEN RateLimiter(UpdateRate, UpdateBurst)
    ELSE IF message_type = "ping" THEN RateLimiter(PingRate, PingBurst)
    ELSE RateLimiter(DefaultRate, DefaultBurst)

\* get_rate_limiter: the limiter map after the get-or-create.
get_rate_limiter(limiters, user_id, message_type) ==
    LET withUser == IF user_id \in DOMAIN limiters
                    THEN limiters
                    ELSE Put(limiters, user_id, EmptyDict)
    IN  IF message_type \in DOMAIN withUser[user_id]
        THEN withUser
        ELSE Put(withUser, user_id,
                 Put(withUser[user_id], message_type, NewLimiter(message_type)))

\* The pairs that have a limiter.
LimiterPairs(limiters) ==
    {p \in Users \X MessageTypes :
        p[1] \in DOMAIN limiters /\ p[2] \in DOMAIN limiters[p[1]]}

\* History pruned to the trailing window (t - OneSecond, t].
InWindow(times, t) == SelectSeq(times, LAMBDA x : t - x < OneSecond)

\* collaboration.py:382-383: rate_limiter = get_rate_limiter(...); rate_limiter.is_allowed()
\* The new values of the limiter map and of the admission history.
ApplyRateLimit(user_id, message_type) ==
    LET got == get_rate_limiter(user_rate_limiters, user_id, message_type)
        res == is_allowed(got[user_id][message_type], now)
        key == <<user_id, message_type>>
        old == IF key \in DOMAIN admitted THEN admitted[key] ELSE << >>
    IN  [ok |-> res.ok,
         limiters |-> [got EXCEPT ![user_id][message_type] = res.limiter],
         admitted |-> IF res.ok THEN Put(admitted, key, Append(InWindow(old, now), now))
                      ELSE admitted]

\* One admission check, as the message loop performs it.
RLCheck(u, mt) ==
    /\ LimiterPairs(user_rate_limiters) \subseteq {<<u, mt>>}
    /\ LET r == ApplyRateLimit(u, mt)
       IN  /\ user_rate_limiters' = r.limiters
           /\ admitted' = r.admitted
    /\ UNCHANGED <<recVars, now, storeVars, saveVars, connVars>>

\* The clock advances by `step` ticks, up to `limit`; admissions that left
\* the window leave the history.
Tick(limit, step) ==
    /\ now + step <= limit
    /\ now' = now + step
    /\ admitted' = [k \in DOMAIN admitted |-> InWindow(admitted[k], now + step)]
    /\ UNCHANGED <<recVars, user_rate_limiters, storeVars, saveVars, connVars>>

TickRL == Tick(RLMaxTime, 1)

----------------------------------------------------------------------------
(* Storage collaborator: services/dynamodb_service.py *)

\* dynamodb_service.get_diagram(user_id, diagram_id): the item keyed by
\* (userId, id), so only the owner's id finds it.
get_diagram(user_id, diagram_id) ==
    diagram_id \in DOMAIN diagrams /\ diagrams[diagram_id].userId = user_id

\* dynamodb_service.get_shared_diagrams_for_user: the ids of the diagrams
\* whose collaborators list names the user, whatever the permission.
get_shared_diagrams_for_user(user_id) ==
    {d \in DOMAIN diagrams : user_id \in DOMAIN diagrams[d].collaborators}

\* dynamodb_service.check_collaborator_permission: "edit" for the owner, the
\* stored permission for a collaborator, "none" (None) otherwise.
check_collaborator_permission(diagram_id, user_id) ==
    IF get_diagram(user_id, diagram_id) THEN "edit"
    ELSE IF diagram_id \in DOMAIN diagrams
            /\ user_id \in DOMAIN diagrams[diagram_id].collaborators
         THEN diagrams[diagram_id].collaborators[user_id]
         ELSE "none"

\* validation.validate_sharing_permission
validate_sharing_permission(user_id, diagram_id, required_permission) ==
    IF get_diagram(user_id, diagram_id)
    THEN [ok |-> TRUE, msg |-> ""]
    ELSE LET permission == check_collaborator_permission(diagram_id, user_id)
         IN  IF permission = "none"
             THEN [ok |-> FALSE, msg |-> "no permission to access this diagram"]
             ELSE IF required_permission = "edit" /\ permission = "read"
             THEN [ok |-> FALSE, msg |-> "only read permission for this diagram"]
             ELSE [ok |-> TRUE, msg |-> ""]

\* An access check that asks for READ whatever the action.
validate_diagram_access_read(user_id, diagram_id, action) ==
    validate_sharing_permission(user_id, diagram_id, "read")

\* validation.validate_diagram_access
validate_diagram_access(user_id, diagram_id, action) ==
    validate_sharing_permission(
        user_id, diagram_id,
        IF action \in {"update", "delete", "share"} THEN "edit" ELSE "read")

\* A resolution that returns the caller whenever the caller can reach the
\* diagram: the write would be made under the collaborator's id.
ResolveOwner_caller(user_id, diagram_id) ==
    IF get_diagram(user_id, diagram_id) THEN user_id
    ELSE IF diagram_id \in get_shared_diagrams_for_user(user_id)
         THEN user_id
         ELSE "none"

\* The owner save_after_delay resolves from its caller (lines 139-143): the
\* caller when it owns the diagram, else the owner of the diagram of that id
\* among those shared with the caller, else "none".
ResolveOwner(user_id, diagram_id) ==
    IF get_diagram(user_id, diagram_id) THEN user_id
    ELSE IF diagram_id \in get_shared_diagrams_for_user(user_id)
         THEN diagrams[diagram_id].userId
         ELSE "none"

\* The diagrams table at the start: d1 of u1, shared with u2 (edit) and u3
\* (read); d2 of u2, shared with u1 (edit).
InitDiagrams ==
    [d \in Docs |->
        IF d = "d1"
        THEN [userId |-> "u1",
              collaborators |-> [u \in {"u2", "u3"} |-> IF u = "u2" THEN "edit" ELSE "read"]]
        ELSE [userId |-> "u2",
              collaborators |-> [u \in {"u1"} |-> "edit"]]]

\* The table changes below are the REST routes of routers/diagrams.py; a
\* behaviour makes at most one of them (each starts from the initial table).

\* The share route: the owner adds a collaborator or changes the permission
\* of one (share_diagram / update_collaborator_permission).
ShareDiagram(d, u, perm) ==
    /\ diagrams = InitDiagrams
    /\ d \in DOMAIN diagrams
    /\ u # diagrams[d].userId
    /\ Get(diagrams[d].collaborators, u) # perm
    /\ diagrams' = [diagrams EXCEPT ![d].collaborators = Put(@, u, perm)]

\* routers/diagrams.py: the owner removes a collaborator.
RemoveCollaborator(d, u) ==
    /\ diagrams = InitDiagrams
    /\ d \in DOMAIN diagrams
    /\ u \in DOMAIN diagrams[d].collaborators
    /\ diagrams' = [diagrams EXCEPT ![d].collaborators = Del(@, u)]

\* routers/diagrams.py: the owner deletes the diagram.
DeleteDiagram(d) ==
    /\ diagrams = InitDiagrams
    /\ d \in DOMAIN diagrams
    /\ diagrams' = Del(diagrams, d)

----------------------------------------------------------------------------
(* JSON values of a frame, as far as the code looks into them *)

JObj(f) == [t |-> "obj", f |-> f]
JList == [t |-> "list", f |-> EmptyDict]

\* The values of the `data` field of a diagram_update the model sends.
PayloadA == JObj([k \in {"nodes"} |-> "nodesA"])
PayloadB == JObj([k \in {"nodes", "title"} |-> IF k = "nodes" THEN "nodesB" ELSE "titleB"])
Payloads == {PayloadA, PayloadB, JList}

----------------------------------------------------------------------------
(* Debounced persistence scheduler: collaboration.py:116-168 *)

DebounceSeconds == 5
DebounceDelay == DebounceSeconds * OneSecond

\* asyncio.create_task(save_after_delay()): the task, created at `now` with
\* its sleep(5) ahead, holding the caller's user_id and update_data.
NewTask(diagram_id, user_id, update_data) ==
    [doc |-> diagram_id, user_id |-> user_id, data |-> update_data,
     created |-> now, state |-> "sleeping", resolved |-> FALSE]

\* A save that cancels the pending task of every document, as one timer
\* shared by all documents would.
debounced_save_diagram_onetimer(diagram_id, user_id, update_data) ==
    LET id == Len(tasks) + 1
        cancelled == [t \in 1..Len(tasks) |->
                        IF tasks[t].state = "sleeping"
                        THEN [tasks[t] EXCEPT !.state = "cancelling"]
                        ELSE tasks[t]]
    IN  [tasks |-> Append(cancelled, NewTask(diagram_id, user_id, update_data)),
         saves |-> Put(debounced_saves, diagram_id,
                       [time |-> now, data |-> update_data, task |-> id])]

\* A save that leaves the task it replaces running.
debounced_save_diagram_nocancel(diagram_id, user_id, update_data) ==
    LET id == Len(tasks) + 1
    IN  [tasks |-> Append(tasks, NewTask(diagram_id, user_id, update_data)),
         saves |-> Put(debounced_saves, diagram_id,
                       [time |-> now, data |-> update_data, task |-> id])]

\* debounced_save_diagram: cancel the task of the document's entry unless it
\* is done, create the task of save_after_delay, store the entry.
debounced_save_diagram(diagram_id, user_id, update_data) ==
    LET existing == IF diagram_id \in DOMAIN debounced_saves
                    THEN debounced_saves[diagram_id].task ELSE 0
        done(t) == tasks[t].state \in {"finished", "cancelled"}
        cancelled == IF existing # 0 /\ ~done(existing)
                     THEN [tasks EXCEPT ![existing].state = "cancelling"]
                     ELSE tasks
        id == Len(tasks) + 1
    IN  [tasks |-> Append(cancelled, NewTask(diagram_id, user_id, update_data)),
         saves |-> Put(debounced_saves, diagram_id,
                       [time |-> now, data |-> update_data, task |-> id])]

\* A timer that has always run out.
TimerExpired_early(t) == TRUE

\* The timer of a task has run out: asyncio.sleep(5) returns no earlier than
\* five seconds after the task was created.
TimerExpired(t) == now - tasks[t].created >= DebounceDelay

\* save_after_delay after the sleep, lines 131-164, which run without
\* suspension: read the fields (AttributeError when the payload is no dict),
\* resolve the owner, call update_diagram when the diagram is found, and in
\* every case remove the document's entry.  `storage_ok` is whether
\* update_diagram succeeds.
FireSave(t, storage_ok) ==
    /\ t \in 1..Len(tasks)
    /\ tasks[t].state = "sleeping"
    /\ TimerExpired(t)
    /\ LET task == tasks[t]
           owner == ResolveOwner(task.user_id, task.doc)
           isDict == task.data.t = "obj"
       IN  /\ writes' = IF isDict /\ owner # "none"
                        THEN Append(writes,
                                [user_id |-> owner,
                                 diagram_id |-> task.doc,
                                 title |-> Get(task.data.f, "title"),
                                 description |-> Get(task.data.f, "description"),
                                 nodes |-> Get(task.data.f, "nodes"),
                                 edges |-> Get(task.data.f, "edges"),
                                 ok |-> storage_ok,
                                 task |-> t])
                        ELSE writes
           /\ storage_ok \/ (isDict /\ owner # "none")
           /\ tasks' = [tasks EXCEPT ![t].state = "finished",
                                     ![t].resolved = (owner # "none")]
           /\ debounced_saves' = IF task.doc \in DOMAIN debounced_saves
                                 THEN Del(debounced_saves, task.doc)
                                 ELSE debounced_saves
    /\ UNCHANGED <<recVars, now, rlVars, storeVars, connVars>>

\* The CancelledError of task.cancel() is thrown into the task at its await
\* of asyncio.sleep (line 130), outside the try: the task ends there.
CancelDelivered(t) ==
    /\ t \in 1..Len(tasks)
    /\ tasks[t].state = "cancelling"
    /\ tasks' = [tasks EXCEPT ![t].state = "cancelled"]
    /\ UNCHANGED <<recVars, now, rlVars, storeVars, debounced_saves, writes, connVars>>

\* collaboration.py:399-426: a diagram_update that passed the edit gate
\* schedules its save.
SaveCall(d, u, data) ==
    /\ Len(tasks) < MaxTasks
    /\ validate_diagram_access(u, d, "update").ok
    /\ LET r == debounced_save_diagram(d, u, data)
       IN  /\ tasks' = r.tasks
           /\ debounced_saves' = r.saves
    /\ UNCHANGED <<recVars, now, rlVars, storeVars, writes, connVars>>

StorageChange ==
    /\ \/ \E d \in Docs, u \in Users, perm \in {"read", "edit"} : ShareDiagram(d, u, perm)
       \/ \E d \in Docs, u \in Users : RemoveCollaborator(d, u)
       \/ \E d \in Docs : DeleteDiagram(d)
    /\ UNCHANGED <<recVars, now, rlVars, saveVars, connVars>>

----------------------------------------------------------------------------
(* Message validator: collaboration.py:75-113 *)

\* JSON values other than objects and lists: numbers, booleans, a string
\* in ISO-8601 format and a string that is not.
JNull == [t |-> "null", f |-> EmptyDict]
JNum == [t |-> "num", f |-> EmptyDict]
JBool == [t |-> "bool", f |-> EmptyDict]
GoodTime == [t |-> "isostr", f |-> EmptyDict]
BadTime == [t |-> "str", f |-> EmptyDict]

\* isinstance(v, (int, float)): bool is a subclass of int
IsNumber(v) == v.t \in {"num", "bool"}

\* datetime.fromisoformat(v.replace("Z", "+00:00")) returns
ParsesAsTime(v) == v = GoodTime

\* A validator that rejects the types the loop does not dispatch.
validate_message_knowntypes(message_type, data) ==
    IF message_type \in {"cursor_move", "diagram_update", "ping"}
    THEN [ok |-> "timestamp" \notin DOMAIN data, msg |-> ""]
    ELSE [ok |-> FALSE, msg |-> "Unknown message type"]

\* validate_message(message_type, data): data maps the field names of the
\* frame, other than "type", to their values.
validate_message(message_type, data) ==
    LET timestampOk ==
            IF "timestamp" \in DOMAIN data
            THEN IF ParsesAsTime(data["timestamp"])
                 THEN [ok |-> TRUE, msg |-> ""]
                 ELSE [ok |-> FALSE, msg |-> "Invalid timestamp"]
            ELSE [ok |-> TRUE, msg |-> ""]
    IN  IF message_type = "cursor_move"
        THEN IF "position" \notin DOMAIN data
             THEN [ok |-> FALSE, msg |-> "Missing 'position' field"]
             ELSE LET position == data["position"]
                  IN  IF position.t # "obj" \/ "x" \notin DOMAIN position.f
                                            \/ "y" \notin DOMAIN position.f
                      THEN [ok |-> FALSE, msg |-> "Invalid 'position' format"]
                      ELSE IF ~IsNumber(position.f["x"]) \/ ~IsNumber(position.f["y"])
                      THEN [ok |-> FALSE, msg |-> "Position coordinates must be numbers"]
                      ELSE timestampOk
        ELSE IF message_type = "diagram_update"
        THEN IF "data" \notin DOMAIN data
             THEN [ok |-> FALSE, msg |-> "Missing 'data' field"]
             ELSE timestampOk
        ELSE timestampOk

\* The frames a client sends: the "type" field and the other fields.
Frame(type, fields) == [json |-> "object", type |-> type, fields |-> fields]
CursorFrame == Frame("cursor_move",
                     [k \in {"position"} |-> JObj([c \in {"x", "y"} |-> JNum])])
UpdateFrame(p) == Frame("diagram_update", [k \in {"data"} |-> p])
PingFrame == Frame("ping", EmptyDict)
BadUpdateFrame == Frame("diagram_update", EmptyDict)
Frames == {CursorFrame, UpdateFrame(PayloadA), PingFrame, BadUpdateFrame}

\* Text that is not JSON, and JSON that is not an object (an array, a
\* string, a number, null).
MalformedFrame == [json |-> "malformed", type |-> None, fields |-> EmptyDict]
ArrayFrame == [json |-> "array", type |-> None, fields |-> EmptyDict]

\* A "type" the client made a JSON array: the value is not hashable, and
\* `message_type not in user_rate_limiters[user_id]` (line 55) raises TypeError.
ListType == "[]"
Hashable(message_type) == message_type # ListType

\* Frames of a type the loop does not know, without a type, with a
\* timestamp that does not parse, and with a position that is no object.
ChatFrame == Frame("chat", EmptyDict)
NoTypeFrame == Frame(None, EmptyDict)
ListTypeFrame == Frame(ListType, EmptyDict)
BadTimeFrame == Frame("ping", [k \in {"timestamp"} |-> BadTime])
BadCursorFrame == Frame("cursor_move", [k \in {"position"} |-> JNum])
LoopFrames ==
    Frames \cup {MalformedFrame, ArrayFrame, ChatFrame, NoTypeFrame, ListTypeFrame,
                 BadTimeFrame, BadCursorFrame}

----------------------------------------------------------------------------
(* Authentication: services/auth_service.py:53-63, collaboration.py:207-233 *)

\* A token: absent, or a JWT that verifies or not (bad signature, expired)
\* with the user_id of its payload (None when the payload has none).
NoToken == [present |-> FALSE, verifies |-> FALSE, user_id |-> None]
Jwt(verifies, user_id) == [present |-> TRUE, verifies |-> verifies, user_id |-> user_id]
Tokens == {NoToken, Jwt(FALSE, "u1"), Jwt(TRUE, None)} \cup {Jwt(TRUE, u) : u \in Users}

\* AuthService.decode_token: the payload, or HTTPException on a JWTError.
decode_token(token) ==
    IF token.verifies
    THEN [raises |-> "", user_id |-> token.user_id]
    ELSE [raises |-> "HTTPException", user_id |-> None]

\* dynamodb_service.get_user_by_id finds a record: users are never deleted.
get_user_by_id(user_id) == user_id \in Users

----------------------------------------------------------------------------
(* Session registry, broadcaster and connection handler:                   *)
(* collaboration.py:171-192 and 195-504                                    *)

WebSockets == {"ws1", "ws2", "ws3"}

\* An envelope sent to a client.  `bid` names the notify_collaborators call
\* that sent it, <<ws, 0>> when the handler of ws sent it to its own client.
Envelope(type, code, message, user, data, bid, members) ==
    [type |-> type, code |-> code, message |-> message, user |-> user,
     data |-> data, bid |-> bid, members |-> members]
ErrorEnvelope(ws, code, msg) == Envelope("error", code, msg, None, JNull, <<ws, 0>>, << >>)

\* The websockets of a connection list.
Sockets(list) == {list[i][1] : i \in 1..Len(list)}

\* The websockets registered for a document.
Registered(reg, d) == IF d \in DOMAIN reg THEN Sockets(reg[d]) ELSE {}

NoBroadcast ==
    [bid |-> <<"none", 0>>, doc |-> "none",
     msg |-> Envelope("none", "", "", None, JNull, <<"none", 0>>, << >>), exclude |-> None,
     live |-> FALSE, snap |-> << >>, idx |-> 0, disconnected |-> << >>,
     tried |-> << >>, throughout |-> {}, gone |-> {}, status |-> "none",
     left |-> {}]

NewHandler ==
    [pc |-> "new", doc |-> "none", user_id |-> None, user_info |-> FALSE,
     registered |-> FALSE, raised |-> "", close_code |-> 0, first |-> None,
     collaborators |-> << >>, peers |-> {}, nbc |-> 0, bc |-> NoBroadcast, last |-> NoBroadcast]

\* send_json succeeds: the envelope is delivered to the client of `target`;
\* the handler record keeps the type of the first envelope delivered.
Deliver(W, target, env) ==
    [W EXCEPT !.sent[target] = IF env \in DOMAIN @ THEN [@ EXCEPT ![env] = @ + 1]
                               ELSE Put(@, env, 1),
              !.h[target].first = IF @ = None THEN env.type ELSE @]

\* How many times the envelope was delivered to the websocket.
Delivered(ws, env) == IF env \in DOMAIN sent[ws] THEN sent[ws][env] ELSE 0

InBroadcast(hrec) == hrec.pc \in {"joining", "upd", "cur", "leaving"}

\* list.remove(x): without its first occurrence
RemoveFirst(list, x) ==
    LET at == {i \in 1..Len(list) : list[i] = x}
        i == CHOOSE k \in at : \A m \in at : k <= m
    IN  IF at = {} THEN list
        ELSE [k \in 1..(Len(list) - 1) |-> IF k < i THEN list[k] ELSE list[k + 1]]

\* A pruning that removes nothing.
PruneAll_keep(list, disconnected) == list

\* Lines 190-192: each connection marked dead is removed from the list if
\* its websocket is still in it.
RECURSIVE PruneAll(_, _)
PruneAll(list, disconnected) ==
    IF disconnected = << >> THEN list
    ELSE PruneAll(IF disconnected[1][1] \in Sockets(list)
                  THEN RemoveFirst(list, disconnected[1])
                  ELSE list,
                  Tail(disconnected))

\* The list the for loop of line 179 iterates: the list object it took from
\* the registry, which is the registry's list as long as no handler has
\* replaced it (line 488) or deleted the key (line 494).
IterList(W, ws) ==
    IF W.h[ws].bc.live THEN W.reg[W.h[ws].bc.doc] ELSE W.h[ws].bc.snap

\* The next position of the list iterator at or after idx + 1 whose
\* connection is not excluded (lines 180-181), 0 when the list is exhausted.
NextTarget(list, idx, exclude) ==
    LET c == {i \in (idx + 1)..Len(list) :
                 ~(exclude # None /\ list[i][2] = exclude)}
    IN  IF c = {} THEN 0 ELSE CHOOSE i \in c : \A j \in c : i <= j

\* notify_collaborators from its current position to its next suspension:
\* either one more send_json (line 184, the await after which other handlers
\* may run), or the end of the loop and the pruning of lines 190-192.
NotifyCore(W, ws) ==
    LET b == W.h[ws].bc
        list == IterList(W, ws)
        t == NextTarget(list, b.idx, b.exclude)
    IN  IF t # 0
        THEN LET target == list[t]
                 ok == alive[target[1]]
                 W1 == [W EXCEPT
                          !.h[ws].bc.idx = t,
                          !.h[ws].bc.tried = Append(@, target[1]),
                          !.h[ws].bc.disconnected = IF ok THEN @ ELSE Append(@, target)]
             IN  [status |-> "suspended",
                  W |-> IF ok THEN Deliver(W1, target[1], b.msg) ELSE W1]
        ELSE IF b.disconnected = << >>
        THEN [status |-> "ok",
              W |-> [W EXCEPT !.h[ws].last =
                        [b EXCEPT !.status = "ok", !.left = Registered(W.reg, b.doc)],
                     !.h[ws].bc = NoBroadcast]]
        ELSE IF b.doc \notin DOMAIN W.reg
        THEN [status |-> "KeyError",
              W |-> [W EXCEPT !.h[ws].last =
                        [b EXCEPT !.status = "KeyError", !.left = {}],
                     !.h[ws].bc = NoBroadcast]]
        ELSE LET pruned == PruneAll(W.reg[b.doc], b.disconnected)
             IN  [status |-> "ok",
                  W |-> [W EXCEPT !.reg[b.doc] = pruned,
                         !.h[ws].last =
                            [b EXCEPT !.status = "ok", !.left = Sockets(pruned)],
                         !.h[ws].bc = NoBroadcast]]

\* notify_collaborators(diagram_id, message, exclude_user_id) from its call
\* to its first suspension; it returns at once when the document has no
\* session (lines 175-176).
BeginNotify(W, ws, d, type, data, exclude) ==
    IF d \notin DOMAIN W.reg
    THEN [status |-> "ok", W |-> W]
    ELSE LET n == W.h[ws].nbc + 1
             msg == Envelope(type, "", "", W.h[ws].user_id, data, <<ws, n>>, << >>)
         IN  NotifyCore(
                [W EXCEPT !.h[ws].nbc = n,
                          !.h[ws].bc =
                             [bid |-> <<ws, n>>, doc |-> d, msg |-> msg,
                              exclude |-> exclude, live |-> TRUE, snap |-> << >>,
                              idx |-> 0, disconnected |-> << >>, tried |-> << >>,
                              throughout |-> Registered(W.reg, d),
                              gone |-> {w \in WebSockets :
                                          W.h[w].registered /\ w \notin Registered(W.reg, d)},
                              status |-> "running", left |-> {}]],
                ws)

\* The handler returns or raises: the connection is over.
Close(W, ws, exc) == [W EXCEPT !.h[ws].pc = "closed", !.h[ws].raised = exc]

\* The finally block, lines 484-504, entered with exception `exc` pending
\* ("" for none, or for the WebSocketDisconnect line 481 swallows): rebuild
\* the document's list without the connections of this user, delete the key
\* when the list is empty, and notify the others.  The message is built from
\* user_info, which is unbound when the handler never reached line 253.
Finally(W, ws, exc) ==
    LET me == W.h[ws]
        d == me.doc
    IN  IF d \in DOMAIN W.reg /\ me.user_id # None
        THEN LET old == W.reg[d]
                 new == SelectSeq(old, LAMBDA c : c[2] # me.user_id)
                 detached == [w \in WebSockets |->
                                IF InBroadcast(W.h[w]) /\ W.h[w].bc.live /\ W.h[w].bc.doc = d
                                THEN [W.h[w] EXCEPT !.bc.live = FALSE, !.bc.snap = old]
                                ELSE W.h[w]]
                 W1 == [W EXCEPT !.reg = IF new = << >> THEN Del(W.reg, d)
                                         ELSE [W.reg EXCEPT ![d] = new],
                                 !.h = detached]
             IN  IF ~me.user_info
                 THEN Close(W1, ws, "UnboundLocalError")
                 ELSE LET r == BeginNotify(W1, ws, d, "user_left", JNull, None)
                      IN  IF r.status = "suspended"
                          THEN [r.W EXCEPT !.h[ws].pc = "leaving", !.h[ws].raised = exc]
                          ELSE Close(r.W, ws, IF r.status = "ok" THEN exc ELSE r.status)
        ELSE Close(W, ws, exc)

\* A send_json to the own client that succeeds without delivering anything.
SendOwn_nodelivery(W, ws, env, pc) == [W EXCEPT !.h[ws].pc = pc]

\* The handler's send_json to its own client: the envelope is sent and the
\* handler goes on at `pc`; on a dead transport the send raises, and the
\* exception takes the handler to the finally block.
SendOwn(W, ws, env, pc) ==
    IF alive[ws]
    THEN [Deliver(W, ws, env) EXCEPT !.h[ws].pc = pc]
    ELSE Finally(W, ws, "SendFailed")

\* The three limits listed in the welcome message, lines 350-354.
WelcomeRateLimits ==
    [cursorMove |-> [average |-> 120, burst |-> 50],
     diagramUpdate |-> [average |-> 10, burst |-> 5],
     ping |-> [average |-> 1, burst |-> 0]]

\* What follows a notify_collaborators call that has returned ("ok") or
\* raised, by the place of the call: line 335 (then the welcome, line 360),
\* line 429 (inside the try of line 423), line 448, line 497.
AfterNotify(W, ws, status) ==
    LET pc == W.h[ws].pc
    IN  IF pc = "joining"
        THEN IF status = "ok"
             THEN SendOwn(W, ws,
                          Envelope("welcome", "", "", W.h[ws].user_id, JNull,
                                   <<ws, 0>>, W.h[ws].collaborators),
                          "active")
             ELSE Finally(W, ws, status)
        ELSE IF pc = "upd"
        THEN IF status = "ok"
             THEN [W EXCEPT !.h[ws].pc = "active"]
             ELSE SendOwn(W, ws, ErrorEnvelope(ws, "INTERNAL_ERROR", status), "active")
        ELSE IF pc = "cur"
        THEN IF status = "ok"
             THEN [W EXCEPT !.h[ws].pc = "active"]
             ELSE Finally(W, ws, status)
        ELSE Close(W, ws, IF status = "ok" THEN W.h[ws].raised ELSE status)

\* History: a broadcast in progress keeps the set of connections that have
\* been registered for its document ever since it began.
Track(W) ==
    [W EXCEPT !.h = [w \in WebSockets |->
        IF InBroadcast(W.h[w])
        THEN [W.h[w] EXCEPT !.bc.throughout = @ \cap Registered(W.reg, W.h[w].bc.doc)]
        ELSE W.h[w]]]

World == [reg |-> active_connections, h |-> h, sent |-> sent]

Commit(W) ==
    LET T == Track(W)
    IN  /\ active_connections' = T.reg
        /\ h' = T.h
        /\ sent' = T.sent

\* A notify_collaborators call started at `pc`, with what follows it.
Notify(W, ws, pc, type, data, exclude) ==
    LET r == BeginNotify([W EXCEPT !.h[ws].pc = pc], ws, W.h[ws].doc, type, data, exclude)
    IN  IF r.status = "suspended" THEN r.W ELSE AfterNotify(r.W, ws, r.status)

\* collaborate_on_diagram from accept (line 202) to its first suspension
\* inside notify_collaborators, or to the end of a refused attempt.
Connected(ws, d, token) ==
    LET W == [World EXCEPT !.h[ws].doc = d]
        refuse(code, msg) ==
            [Deliver(W, ws, ErrorEnvelope(ws, code, msg)) EXCEPT
                      !.h[ws].close_code = 1008]
        decoded == decode_token(token)
        user_id == decoded.user_id
    IN  IF ~token.present
        THEN Finally(refuse("INVALID_TOKEN", "Authentication required"), ws, "")
        ELSE IF decoded.raises \notin {"", "ValueError", "TypeError"}
        THEN Finally(W, ws, decoded.raises)
        ELSE IF decoded.raises # "" \/ user_id = None
        THEN Finally(refuse("INVALID_TOKEN", "Invalid or expired token"), ws, "")
        ELSE LET access == validate_diagram_access(user_id, d, "read")
                 W1 == [W EXCEPT !.h[ws].user_id = user_id]
                 refuse1(code, msg) ==
                    [Deliver(W1, ws, ErrorEnvelope(ws, code, msg)) EXCEPT
                               !.h[ws].close_code = 1008]
             IN  IF ~access.ok
                 THEN Finally(refuse1("PERMISSION_DENIED", access.msg), ws, "")
                 ELSE IF ~get_user_by_id(user_id)
                 THEN Finally(refuse1("INVALID_TOKEN", "User not found"), ws, "")
                 ELSE LET list == Append(IF d \in DOMAIN W1.reg THEN W1.reg[d] ELSE << >>,
                                         <<ws, user_id>>)
                          others == SelectSeq(list, LAMBDA c : c[2] # user_id)
                          W2 == [W1 EXCEPT
                                   !.reg = Put(W1.reg, d, list),
                                   !.h[ws].user_info = TRUE,
                                   !.h[ws].registered = TRUE,
                                   !.h[ws].collaborators =
                                       [i \in 1..Len(others) |-> others[i][2]],
                                   !.h[ws].peers = Sockets(others)]
                      IN  Notify(W2, ws, "joining", "user_joined", JNull, user_id)

\* Websockets are interchangeable: they connect in the order of their names.
Earlier(ws) == {w \in WebSockets : \E i, j \in 1..3 :
                   /\ w = <<"ws1", "ws2", "ws3">>[i]
                   /\ ws = <<"ws1", "ws2", "ws3">>[j]
                   /\ i < j}

Connect(ws, d, token) ==
    /\ h[ws].pc = "new"
    /\ \A w \in Earlier(ws) : h[w].pc # "new"
    /\ alive[ws]
    /\ Commit(Connected(ws, d, token))
    /\ UNCHANGED <<recVars, now, rlVars, storeVars, saveVars, alive, frames, failures>>

\* A handler suspended in notify_collaborators resumes.
BroadcastStep(ws) ==
    /\ InBroadcast(h[ws])
    /\ LET r == NotifyCore(World, ws)
       IN  Commit(IF r.status = "suspended" THEN r.W ELSE AfterNotify(r.W, ws, r.status))
    /\ UNCHANGED <<recVars, now, rlVars, storeVars, saveVars, alive, frames, failures>>

\* The transport of a connection closes or breaks: from now on every send to
\* it fails and its receive raises WebSocketDisconnect.
TransportFail(ws) ==
    /\ h[ws].pc \notin {"new", "closed"}
    /\ alive[ws]
    /\ failures < MaxFailures
    /\ failures' = failures + 1
    /\ alive' = [alive EXCEPT ![ws] = FALSE]
    /\ UNCHANGED <<recVars, now, rlVars, storeVars, saveVars, active_connections, h, sent, frames>>

\* receive_json (line 365) raises WebSocketDisconnect: lines 481-504.
Disconnect(ws) ==
    /\ h[ws].pc = "active"
    /\ ~alive[ws]
    /\ Commit(Finally(World, ws, ""))
    /\ UNCHANGED <<recVars, now, rlVars, storeVars, saveVars, alive, frames, failures>>

\* One pass of the message loop, lines 363-479, from the frame received to
\* the next suspension, in a behaviour of at most max_frames frames and
\* max_tasks save tasks.
Handle(ws, frame, max_frames, max_tasks) ==
    /\ h[ws].pc = "active"
    /\ alive[ws]
    /\ Len(frames) < max_frames
    /\ frames' = Append(frames, <<ws, frame>>)
    /\ LET me == h[ws]
           message_type == frame.type
           valid == validate_message(message_type, frame.fields)
           limit == ApplyRateLimit(me.user_id, message_type)
           access == validate_diagram_access(me.user_id, me.doc, "update")
           reply(code, msg) == Commit(SendOwn(World, ws, ErrorEnvelope(ws, code, msg), "active"))
       IN  IF frame.json = "malformed"
           THEN /\ reply("INVALID_MESSAGE_FORMAT", "Invalid JSON received")
                /\ UNCHANGED <<rlVars, saveVars>>
           ELSE IF frame.json # "object"
           THEN /\ Commit(Finally(World, ws, "AttributeError"))
                /\ UNCHANGED <<rlVars, saveVars>>
           ELSE IF ~valid.ok
           THEN /\ reply("INVALID_MESSAGE_FORMAT", valid.msg)
                /\ UNCHANGED <<rlVars, saveVars>>
           ELSE IF ~Hashable(message_type)
           THEN /\ Commit(Finally(World, ws, "TypeError"))
                /\ UNCHANGED <<rlVars, saveVars>>
           ELSE /\ user_rate_limiters' = limit.limiters
                /\ admitted' = limit.admitted
                /\ IF ~limit.ok
                   THEN /\ IF message_type = "cursor_move"
                           THEN UNCHANGED <<active_connections, h, sent>>
                           ELSE reply("RATE_LIMIT_EXCEEDED", "Rate limit exceeded")
                        /\ UNCHANGED saveVars
                   ELSE IF message_type = "diagram_update"
                   THEN IF ~access.ok
                        THEN /\ reply("PERMISSION_DENIED", access.msg)
                             /\ UNCHANGED saveVars
                        ELSE LET data == IF "data" \in DOMAIN frame.fields
                                         THEN frame.fields["data"] ELSE JObj(EmptyDict)
                                 saved == debounced_save_diagram(me.doc, me.user_id, data)
                             IN  /\ Len(tasks) < max_tasks
                                 /\ tasks' = saved.tasks
                                 /\ debounced_saves' = saved.saves
                                 /\ UNCHANGED writes
                                 /\ Commit(Notify(World, ws, "upd", "diagram_update", data, None))
                   ELSE IF message_type = "cursor_move"
                   THEN /\ Commit(Notify(World, ws, "cur", "cursor_move",
                                         frame.fields["position"], me.user_id))
                        /\ UNCHANGED saveVars
                   ELSE IF message_type = "ping"
                   THEN /\ Commit(SendOwn(World, ws,
                                          Envelope("pong", "", "", None, JNull, <<ws, 0>>, << >>),
                                          "active"))
                        /\ UNCHANGED saveVars
                   ELSE /\ reply("UNKNOWN_MESSAGE_TYPE", "Unknown message type")
                        /\ UNCHANGED saveVars
    /\ UNCHANGED <<recVars, now, storeVars, alive, failures>>

HandleFrame(ws, frame) == Handle(ws, frame, MaxFrames, MaxTasks)

InitConn ==
    /\ active_connections = EmptyDict
    /\ h = [w \in WebSockets |-> NewHandler]
    /\ alive = [w \in WebSockets |-> TRUE]
    /\ sent = [w \in WebSockets |-> EmptyDict]
    /\ frames = << >>
    /\ failures = 0

\* The scheduler specification advances the clock by whole seconds.
TickSave == Tick(SaveMaxTime, OneSecond)

\* Before any call of filter.
NoRecommendations ==
    /\ recommendations = << >>
    /\ threshold = 0
    /\ filtered = [returned |-> FALSE, list |-> << >>]

\* The module state of collaboration.py at import.
InitModule ==
    /\ now = 0
    /\ user_rate_limiters = EmptyDict
    /\ admitted = EmptyDict
    /\ diagrams = InitDiagrams
    /\ debounced_saves = EmptyDict
    /\ tasks = << >>
    /\ writes = << >>
    /\ InitConn

InitCommon == InitModule /\ NoRecommendations

----------------------------------------------------------------------------
(* The scheduler alone, under a clock and a changing diagrams table *)

InitSave == InitCommon

NextSave ==
    \/ \E d \in Docs, u \in Users, data \in Payloads : SaveCall(d, u, data)
    \/ \E t \in 1..MaxTasks, storage_ok \in BOOLEAN : FireSave(t, storage_ok)
    \/ \E t \in 1..MaxTasks : CancelDelivered(t)
    \/ StorageChange
    \/ TickSave

SpecSave == InitSave /\ [][NextSave]_vars

----------------------------------------------------------------------------
(* C1, C2 *)

\* The update_diagram calls a task has issued.
Written(t) == Cardinality({i \in 1..Len(writes) : writes[i].task = t})

\* Every call a task issued is for its document and carries its payload.
CarriesOwnPayload(t) ==
    \A i \in 1..Len(writes) :
        writes[i].task = t =>
            /\ writes[i].diagram_id = tasks[t].doc
            /\ writes[i].nodes = Get(tasks[t].data.f, "nodes")
            /\ writes[i].edges = Get(tasks[t].data.f, "edges")
            /\ writes[i].title = Get(tasks[t].data.f, "title")
            /\ writes[i].description = Get(tasks[t].data.f, "description")

\* Call t was followed, less than five seconds later, by another call for
\* the same document: t is one of calls 1..N-1 of a burst.
Superseded(t) ==
    \E s \in 1..Len(tasks) :
        /\ s > t
        /\ tasks[s].doc = tasks[t].doc
        /\ tasks[s].created - tasks[t].created < DebounceDelay

\* C1 as stated (debounce coalescing): once the timer of the last call of a
\* burst has fired, exactly one update_diagram call has reached storage for
\* it.  (Stated for object payloads only, the payloads the spec allows.)
C1_ExactlyOneWrite ==
    \A t \in 1..Len(tasks) :
        (tasks[t].state = "finished" /\ tasks[t].data.t = "obj") => Written(t) = 1

\* C1 as amended: a burst of calls for one document, each less than five
\* seconds after the previous one, leads to at most one update_diagram call:
\* none for calls 1..N-1, whose tasks are cancelled, and for the Nth call,
\* once its timer has fired, exactly one if its payload is an object and its
\* caller then still resolves the document (as owner or collaborator), none
\* otherwise; the call carries the Nth payload.
C1_Coalescing ==
    \A t \in 1..Len(tasks) :
        /\ Written(t) <= 1
        /\ CarriesOwnPayload(t)
        /\ Superseded(t) =>
              Written(t) = 0 /\ tasks[t].state \in {"cancelling", "cancelled"}
        /\ tasks[t].state = "finished" =>
              Written(t) = (IF tasks[t].data.t = "obj" /\ tasks[t].resolved THEN 1 ELSE 0)
        /\ tasks[t].state # "finished" => Written(t) = 0

\* A burst of two calls with different payloads whose second timer has fired
\* and written.
C1_Witness ==
    \E t \in 1..Len(tasks), s \in 1..Len(tasks) :
        /\ Superseded(t) /\ s > t /\ tasks[s].doc = tasks[t].doc
        /\ tasks[s].data # tasks[t].data
        /\ tasks[s].state = "finished"
        /\ Written(s) = 1 /\ Written(t) = 0

\* The tasks of a document that can still reach storage.
LiveTasks(d) ==
    {t \in 1..Len(tasks) : tasks[t].doc = d /\ tasks[t].state = "sleeping"}

\* C2: each document has at most one delayed-write task that can still reach
\* storage, and it is the task of the document's entry in debounced_saves
\* (the dict holds at most one entry per key); a task that was cancelled has
\* issued no write, and an entry is removed only by the firing of its own
\* task.
C2_AtMostOnePending ==
    /\ \A d \in Docs :
          /\ Cardinality(LiveTasks(d)) <= 1
          /\ LiveTasks(d) = IF d \in DOMAIN debounced_saves
                            THEN {debounced_saves[d].task} ELSE {}
    /\ \A t \in 1..Len(tasks) :
          tasks[t].state \in {"cancelling", "cancelled"} => Written(t) = 0

\* A second save was scheduled for a document with a save pending: the first
\* task is cancelled, the second is the document's only live task.
C2_Witness ==
    \E d \in DOMAIN debounced_saves, t \in 1..Len(tasks) :
        /\ tasks[t].doc = d
        /\ tasks[t].state \in {"cancelling", "cancelled"}
        /\ debounced_saves[d].task > t
        /\ LiveTasks(d) = {debounced_saves[d].task}

----------------------------------------------------------------------------------------------------------------------------------------
(* The connection manager: the handlers of the websockets interleaved at  *)
(* their suspension points, within one instant of the clock               *)

Init == InitCommon

\* Two websockets connect to any document with any token, while the sharing
\* table changes.
Pair == {"ws1", "ws2"}

Next ==
    \/ \E ws \in Pair, d \in Docs, token \in Tokens : Connect(ws, d, token)
    \/ \E ws \in Pair : BroadcastStep(ws)
    \/ \E ws \in Pair, frame \in Frames : HandleFrame(ws, frame)
    \/ \E ws \in Pair : TransportFail(ws)
    \/ \E ws \in Pair : Disconnect(ws)
    \/ StorageChange

Spec == Init /\ [][Next]_vars

\* Three participants, one websocket each, in the session of document d1.
UserOf(ws) == IF ws = "ws1" THEN "u1" ELSE IF ws = "ws2" THEN "u2" ELSE "u3"

NextSession ==
    \/ \E ws \in WebSockets : Connect(ws, "d1", Jwt(TRUE, UserOf(ws)))
    \/ \E ws \in WebSockets : BroadcastStep(ws)
    \/ \E ws \in WebSockets, frame \in Frames : HandleFrame(ws, frame)
    \/ \E ws \in WebSockets : TransportFail(ws)
    \/ \E ws \in WebSockets : Disconnect(ws)

SpecSession == Init /\ [][NextSession]_vars

----------------------------------------------------------------------------
(* Broadcast, registry and connection claims *)

\* How many times a websocket occurs in a sequence of websockets.
Occurrences(seq, c) == Cardinality({i \in 1..Len(seq) : seq[i] = c})

\* The connection is excluded from the broadcast (line 180).
Excluded(b, c) == b.exclude # None /\ h[c].user_id = b.exclude

\* The websockets a broadcast marked dead.
Failed(b) == Sockets(b.disconnected)

\* The broadcasts the state remembers: those in progress and the last one
\* each handler finished.
Remembered ==
    {h[w].bc : w \in {x \in WebSockets : InBroadcast(h[x])}}
        \cup {h[w].last : w \in {x \in WebSockets : h[x].last.status # "none"}}

\* C4: a finished broadcast attempted no send to a connection of the
\* excluded participant, and attempted exactly one send to every other
\* connection that was registered for the document from its beginning to
\* its end, whatever joins, leaves and broadcasts ran between its sends.
C4_BroadcastExclusion ==
    \A w \in WebSockets :
        LET b == h[w].last
        IN  b.status # "none" =>
                \A c \in WebSockets :
                    /\ Excluded(b, c) => Occurrences(b.tried, c) = 0
                    /\ (c \in b.throughout /\ ~Excluded(b, c)) => Occurrences(b.tried, c) = 1

\* C5: no document key of the registry maps to an empty connection list.
C5_RegistryEmptiness ==
    \A d \in DOMAIN active_connections : active_connections[d] # << >>

Errors(ws) == {e \in DOMAIN sent[ws] : e.type = "error"}
DeliveredTotal(ws, envs) ==
    IF envs = {} THEN 0
    ELSE IF \E e \in envs : sent[ws][e] > 1 THEN 2
    ELSE Cardinality(envs)

\* C7: a connection attempt that ended without registering (token missing,
\* undecodable or expired, payload without user_id: no participant known;
\* read access denied: participant known) was sent exactly one error
\* envelope, INVALID_TOKEN or PERMISSION_DENIED respectively, was closed
\* with code 1008, and was sent nothing else.
C7_AuthFailure ==
    \A ws \in WebSockets :
        (h[ws].pc = "closed" /\ ~h[ws].registered) =>
            /\ DeliveredTotal(ws, Errors(ws)) = 1
            /\ \A e \in Errors(ws) :
                  e.code = IF h[ws].user_id = None THEN "INVALID_TOKEN"
                           ELSE "PERMISSION_DENIED"
            /\ DOMAIN sent[ws] = Errors(ws)
            /\ h[ws].close_code = 1008
            /\ h[ws].first = "error"

\* The participant is a collaborator with READ permission, not the owner.
ReadOnly(user_id, diagram_id) ==
    /\ ~get_diagram(user_id, diagram_id)
    /\ check_collaborator_permission(diagram_id, user_id) = "read"

\* The step handles a diagram_update of websocket ws that is well formed and
\* that the limiter admits.
UpdateAtGate(ws) ==
    /\ Len(frames') = Len(frames) + 1
    /\ frames'[Len(frames')][1] = ws
    /\ frames'[Len(frames')][2].type = "diagram_update"
    /\ validate_message("diagram_update", frames'[Len(frames')][2].fields).ok
    /\ ApplyRateLimit(h[ws].user_id, "diagram_update").ok

\* C8: a well-formed diagram_update that the limiter admits, from a
\* participant whose permission is READ when the message is handled, adds
\* exactly one PERMISSION_DENIED error envelope to what the sender was sent,
\* sends nothing to any other connection, starts no broadcast, leaves the
\* pending saves and their tasks unchanged, and leaves the connection Active
\* and registered.
C8_ReadOnlyUpdate ==
    [][\A ws \in WebSockets :
          (UpdateAtGate(ws) /\ ReadOnly(h[ws].user_id, h[ws].doc)) =>
              /\ \E e \in Errors(ws)' :
                    /\ e.code = "PERMISSION_DENIED"
                    /\ sent'[ws][e] = Delivered(ws, e) + 1
                    /\ \A x \in DOMAIN sent'[ws] \ {e} : sent'[ws][x] = Delivered(ws, x)
              /\ \A c \in WebSockets \ {ws} : sent'[c] = sent[c]
              /\ h'[ws] = [h[ws] EXCEPT !.first = IF @ = None THEN "error" ELSE @]
              /\ h'[ws].pc = "active"
              /\ UNCHANGED <<active_connections, debounced_saves, tasks, writes>>]_vars

\* A participant who could edit document d when the table was created has
\* since been given READ, and its diagram_update was refused.
C8_Witness ==
    \E i \in 1..Len(frames) :
        LET ws == frames[i][1]
        IN  /\ frames[i][2] = UpdateFrame(PayloadA)
            /\ ReadOnly(h[ws].user_id, h[ws].doc)
            /\ InitDiagrams[h[ws].doc].collaborators[h[ws].user_id] = "edit"
            /\ \E e \in Errors(ws) : e.code = "PERMISSION_DENIED"
            /\ h[ws].pc = "active"

\* C9: a diagram_update envelope is never delivered to the connection that
\* sent the update; once its broadcast has ended, a send was attempted to
\* every other connection registered throughout; and a save task carrying
\* the data of every delivered update was created for its document.
C9_UpdateDelivery ==
    /\ \A ws \in WebSockets : \A e \in DOMAIN sent[ws] :
            e.type = "diagram_update" =>
                /\ e.bid[1] # ws
                /\ \E t \in 1..Len(tasks) :
                      /\ tasks[t].doc = h[e.bid[1]].doc
                      /\ tasks[t].data = e.data
    /\ \A w \in WebSockets :
            (h[w].last.status # "none" /\ h[w].last.msg.type = "diagram_update") =>
                \A c \in h[w].last.throughout \ {w} : Occurrences(h[w].last.tried, c) = 1

\* The welcome envelopes delivered to a websocket.
Welcomes(ws) == {e \in DOMAIN sent[ws] : e.type = "welcome"}

\* The limits the limiter enforces, as the welcome lists them.
EnforcedRateLimits ==
    [cursorMove |-> [average |-> RateLimiter(CursorRate, CursorBurst).max_per_second,
                     burst |-> RateLimiter(CursorRate, CursorBurst).burst_allowance],
     diagramUpdate |-> [average |-> RateLimiter(UpdateRate, UpdateBurst).max_per_second,
                        burst |-> RateLimiter(UpdateRate, UpdateBurst).burst_allowance],
     ping |-> [average |-> RateLimiter(PingRate, PingBurst).max_per_second,
               burst |-> RateLimiter(PingRate, PingBurst).burst_allowance]]

\* C10: a connection that has registered is in its document's session until
\* it is removed; when its user_joined broadcast has ended, a send was
\* attempted exactly once to every connection of another participant that
\* was registered throughout; no user_joined of its own participant is
\* delivered to it; and once Active it has been sent exactly one welcome,
\* listing the other participants registered when it registered, with the
\* rate-limit table the limiter enforces.
C10_Join ==
    /\ WelcomeRateLimits = EnforcedRateLimits
    /\ \A ws \in WebSockets :
        /\ h[ws].pc \in {"joining", "active", "upd", "cur"} =>
              \/ ws \in Registered(active_connections, h[ws].doc)
              \/ ~alive[ws]
        /\ (h[ws].last.status # "none" /\ h[ws].last.msg.type = "user_joined") =>
              \A c \in h[ws].last.throughout :
                  Occurrences(h[ws].last.tried, c) = IF Excluded(h[ws].last, c) THEN 0 ELSE 1
        /\ \A e \in DOMAIN sent[ws] :
              e.type = "user_joined" => e.user # h[ws].user_id
        /\ h[ws].pc \in {"active", "upd", "cur"} =>
              /\ DeliveredTotal(ws, Welcomes(ws)) = 1
              /\ \A e \in Welcomes(ws) :
                    {e.members[i] : i \in 1..Len(e.members)}
                        = {h[c].user_id : c \in h[ws].peers}



----------------------------------------------------------------------------
(* The limiter alone: one RateLimiter object per behaviour, under a clock *)

InitRL == InitCommon

NextRL ==
    \/ \E u \in Users, mt \in MessageTypes : RLCheck(u, mt)
    \/ TickRL

SpecRL == InitRL /\ [][NextRL]_vars

----------------------------------------------------------------------------
(* C3 *)

Cap(message_type) ==
    IF message_type = "cursor_move" THEN 170
    ELSE IF message_type = "diagram_update" THEN 15
    ELSE IF message_type = "ping" THEN 1
    ELSE 12

\* C3 (sliding window correctness): for every (participant, message type)
\* pair, the number of checks that returned True within the trailing
\* one-second window never exceeds 170 for cursor_move, 15 for
\* diagram_update, 1 for ping and 12 for any other type.
C3_SlidingWindow ==
    \A k \in DOMAIN admitted : Len(admitted[k]) <= Cap(k[2])

\* A limiter at its cap after admissions at two different times of one window:
\* the next check in that window is the one the cap rejects.
C3_Witness ==
    \E k \in DOMAIN admitted :
        /\ Len(admitted[k]) = Cap(k[2])
        /\ k[2] # "ping"
        /\ admitted[k][1] # admitted[k][Len(admitted[k])]
        /\ ~ is_allowed(user_rate_limiters[k[1]][k[2]], now).ok

----------------------------------------------------------------------------
(* Leaving, the message loop and its replies *)

\* C11: a connection that reached the registry and whose handler has ended
\* is registered for no document; and the user_left broadcast its handler
\* made attempted a send to every connection that was registered for the
\* document throughout that broadcast.
C11_UserLeft ==
    \A w \in WebSockets :
        /\ (h[w].pc = "closed" /\ h[w].registered) =>
              \A d \in DOMAIN active_connections : w \notin Sockets(active_connections[d])
        /\ (h[w].last.status # "none" /\ h[w].last.msg.type = "user_left") =>
              \A c \in h[w].last.throughout : Occurrences(h[w].last.tried, c) = 1

----------------------------------------------------------------------------
(* The message loop of one connection: the client of ws1 sends the same   *)
(* frame again and again within one instant of the clock, ws2 listens,    *)
(* and both transports work                                                *)

\* The client of ws1 sends one more copy of its frame.
LoopFrame(frame) ==
    /\ IF frames = << >> THEN TRUE ELSE frames[Len(frames)][2] = frame
    /\ Handle("ws1", frame, MaxLoopFrames, MaxLoopFrames)

\* The connections are made before the first frame is sent.
LoopConnect(ws, u) ==
    /\ frames = << >>
    /\ Connect(ws, "d1", Jwt(TRUE, u))

NextLoop ==
    \/ \E ws \in Pair, u \in Users : LoopConnect(ws, u)
    \/ \E ws \in Pair : BroadcastStep(ws)
    \/ \E frame \in LoopFrames : LoopFrame(frame)

SpecLoop == Init /\ [][NextLoop]_vars

\* The connection has reached Active: its welcome was delivered.
ReachedActive(ws) == Welcomes(ws) # {}

\* The frames handled so far that websocket ws sent.
FramesOf(ws) == {i \in 1..Len(frames) : frames[i][1] = ws}

\* The number of deliveries of the envelopes `envs` to websocket ws.
RECURSIVE SumDelivered(_, _)
SumDelivered(ws, envs) ==
    IF envs = {} THEN 0
    ELSE LET e == CHOOSE x \in envs : TRUE
         IN  sent[ws][e] + SumDelivered(ws, envs \ {e})

\* C12: a connection that reached Active and whose transport works is still
\* in its message loop and registered, whatever frames it has sent, and it
\* was sent at most one error envelope for each frame.
C12_LoopRobust ==
    \A ws \in WebSockets :
        ReachedActive(ws) =>
            /\ alive[ws] => h[ws].pc \in {"active", "upd", "cur"}
            /\ alive[ws] => ws \in Registered(active_connections, h[ws].doc)
            /\ SumDelivered(ws, Errors(ws)) <= Cardinality(FramesOf(ws))

\* The step handles a frame of websocket ws.
Handles(ws) ==
    /\ Len(frames') = Len(frames) + 1
    /\ frames'[Len(frames')][1] = ws

\* The frame the step handles.
Handled == frames'[Len(frames')][2]

\* The frame the step handles is a JSON object with a hashable type that
\* passes the validator.
PassesValidator ==
    /\ Handled.json = "object"
    /\ Hashable(Handled.type)
    /\ validate_message(Handled.type, Handled.fields).ok

\* The step delivers exactly one envelope to ws, an envelope of type `type`
\* and code `code`, and delivers nothing to any other websocket.
OneReply(ws, type, code) ==
    /\ \E e \in DOMAIN sent'[ws] :
          /\ e.type = type
          /\ e.code = code
          /\ sent'[ws][e] = Delivered(ws, e) + 1
          /\ \A x \in DOMAIN sent'[ws] \ {e} : sent'[ws][x] = Delivered(ws, x)
    /\ \A c \in WebSockets \ {ws} : sent'[c] = sent[c]

\* The step starts no broadcast, changes no registration and no pending
\* save, and leaves the connection in its message loop.
StaysActive(ws) ==
    /\ h'[ws].pc = "active"
    /\ h'[ws].nbc = h[ws].nbc
    /\ \A c \in WebSockets \ {ws} : h'[c] = h[c]
    /\ UNCHANGED <<active_connections, debounced_saves, tasks, writes>>

\* C13: a frame that passes the validator and that the limiter rejects
\* delivers no envelope to any connection when it is a cursor_move, and
\* exactly one RATE_LIMIT_EXCEEDED error envelope, to the sender only, when
\* it is of any other type; in both cases nothing is broadcast, no save is
\* scheduled and the connection stays Active.
C13_RateLimitReply ==
    [][\A ws \in WebSockets :
          (Handles(ws) /\ PassesValidator
               /\ ~ApplyRateLimit(h[ws].user_id, Handled.type).ok) =>
              /\ IF Handled.type = "cursor_move"
                 THEN sent' = sent
                 ELSE OneReply(ws, "error", "RATE_LIMIT_EXCEEDED")
              /\ StaysActive(ws)]_vars

\* The 171st cursor_move of one instant was dropped in silence, after 170
\* were broadcast to another participant who listens.
C13_Witness ==
    /\ Len(frames) = CursorRate + CursorBurst + 1
    /\ frames[1][2] = CursorFrame
    /\ h["ws1"].pc = "active"
    /\ h["ws1"].nbc = CursorRate + CursorBurst + 1
    /\ h["ws2"].pc = "active"
    /\ h["ws2"].user_id # h["ws1"].user_id
    /\ Errors("ws1") = {}

\* The pong envelope, line 454.
Pong(ws) == Envelope("pong", "", "", None, JNull, <<ws, 0>>, << >>)

\* The step delivers exactly one envelope, to ws.
OneEnvelopeTo(ws) ==
    /\ \E e \in DOMAIN sent'[ws] :
          /\ sent'[ws][e] = Delivered(ws, e) + 1
          /\ \A x \in DOMAIN sent'[ws] \ {e} : sent'[ws][x] = Delivered(ws, x)
    /\ \A c \in WebSockets \ {ws} : sent'[c] = sent[c]

\* C14: every ping is answered with exactly one envelope, sent to the sender
\* only, and starts no broadcast and no save; a ping that passes the
\* validator is answered with a pong when the limiter admits it and with a
\* RATE_LIMIT_EXCEEDED error when it does not; and of the pings one
\* participant has sent within one instant, the first was answered with the
\* pong and every later one with RATE_LIMIT_EXCEEDED.
C14_Ping ==
    /\ [][\A ws \in WebSockets :
            (Handles(ws) /\ Handled.json = "object" /\ Handled.type = "ping") =>
                /\ OneEnvelopeTo(ws)
                /\ StaysActive(ws)
                /\ PassesValidator =>
                      IF ApplyRateLimit(h[ws].user_id, "ping").ok
                      THEN OneReply(ws, "pong", "")
                      ELSE OneReply(ws, "error", "RATE_LIMIT_EXCEEDED")]_vars
    /\ [](\A ws \in WebSockets :
            (FramesOf(ws) # {} /\ \A i \in FramesOf(ws) : frames[i][2] = PingFrame) =>
                /\ Delivered(ws, Pong(ws)) = 1
                /\ SumDelivered(ws, {e \in Errors(ws) : e.code = "RATE_LIMIT_EXCEEDED"})
                      = Cardinality(FramesOf(ws)) - 1
                /\ SumDelivered(ws, Errors(ws)) = Cardinality(FramesOf(ws)) - 1)

\* Fifteen pings of one instant: one pong and fourteen refusals.
C14_Witness ==
    /\ Len(frames) = 15
    /\ \A i \in 1..15 : frames[i] = <<"ws1", PingFrame>>
    /\ Delivered("ws1", Pong("ws1")) = 1
    /\ SumDelivered("ws1", Errors("ws1")) = 14
    /\ h["ws1"].pc = "active"

\* The types the loop dispatches, lines 399, 440 and 452.
Recognized == {"cursor_move", "diagram_update", "ping"}

\* Field sets of frames, with and without a timestamp.
FieldSets ==
    {f.fields : f \in LoopFrames}
        \cup {[k \in {"timestamp"} |-> GoodTime], [k \in {"timestamp"} |-> BadTime],
              [k \in {"timestamp"} |-> JNum]}

\* C15: the validator accepts a frame of a type it does not recognize
\* unless the frame has a timestamp that does not parse; and a frame of
\* unrecognized type that passes the validator and the limiter is answered
\* with exactly one UNKNOWN_MESSAGE_TYPE error envelope to the sender, starts
\* no broadcast and no save, and leaves the connection Active.
C15_UnknownType ==
    /\ [](\A f \in LoopFrames : \A fields \in FieldSets :
            f.type \notin Recognized =>
                validate_message(f.type, fields).ok
                    = ("timestamp" \in DOMAIN fields => ParsesAsTime(fields["timestamp"])))
    /\ [][\A ws \in WebSockets :
            (Handles(ws) /\ PassesValidator /\ Handled.type \notin Recognized
                 /\ ApplyRateLimit(h[ws].user_id, Handled.type).ok) =>
                /\ OneReply(ws, "error", "UNKNOWN_MESSAGE_TYPE")
                /\ StaysActive(ws)]_vars

\* A frame of type "chat" and a frame without a type were each answered
\* with UNKNOWN_MESSAGE_TYPE while another connection listens.
C15_Witness ==
    /\ Len(frames) = 1
    /\ frames[1][2] \in {ChatFrame, NoTypeFrame}
    /\ \E e \in Errors("ws1") : e.code = "UNKNOWN_MESSAGE_TYPE" /\ sent["ws1"][e] = 1
    /\ h["ws1"].pc = "active"
    /\ h["ws2"].pc = "active"
    /\ Errors("ws2") = {}

----------------------------------------------------------------------------
(* The validator as a function *)

\* A field that is absent from the frame.
JAbsent == [t |-> "absent", f |-> EmptyDict]
With(fields, k, v) == IF v.t = "absent" THEN fields ELSE Put(fields, k, v)

PositionValues ==
    {JAbsent, JNum, JList,
     JObj([c \in {"x"} |-> JNum]),
     JObj([c \in {"x", "y"} |-> JNum]),
     JObj([c \in {"x", "y"} |-> IF c = "x" THEN BadTime ELSE JNum])}
DataValues == {JAbsent, PayloadA, JObj(EmptyDict), JList, JNum, BadTime, JNull}
TimestampValues == {JAbsent, GoodTime, BadTime, JNum}

\* The frames the validator is applied to: every combination of a position,
\* a data and a timestamp field.
ValidatorInputs ==
    {With(With(With(EmptyDict, "position", p), "data", d), "timestamp", t) :
        p \in PositionValues, d \in DataValues, t \in TimestampValues}

ValidatorTypes == {"cursor_move", "diagram_update", "ping", "chat", None}

\* The rule as the claim states it.
StatedRule(message_type, fields) ==
    /\ message_type = "cursor_move" =>
          /\ "position" \in DOMAIN fields
          /\ fields["position"].t = "obj"
          /\ {"x", "y"} \subseteq DOMAIN fields["position"].f
          /\ IsNumber(fields["position"].f["x"])
          /\ IsNumber(fields["position"].f["y"])
    /\ message_type = "diagram_update" =>
          /\ "data" \in DOMAIN fields
          /\ fields["data"].t = "obj"
    /\ "timestamp" \in DOMAIN fields => ParsesAsTime(fields["timestamp"])

\* The client of ws1 sends a frame of the validator's inputs.
ValidateFrame(message_type, fields) ==
    Handle("ws1", Frame(message_type, fields), MaxFrames, MaxTasks)

NextValidate ==
    \/ \E ws \in Pair, u \in Users : LoopConnect(ws, u)
    \/ \E ws \in Pair : BroadcastStep(ws)
    \/ \E message_type \in ValidatorTypes, fields \in ValidatorInputs :
          ValidateFrame(message_type, fields)

SpecValidate == Init /\ [][NextValidate]_vars

\* C16: validate_message(type, payload) returns ok exactly when a cursor_move
\* has a position object with numeric x and y, a diagram_update has a data
\* field that is an object, and the timestamp, if present, parses; a ping
\* and an unrecognized type need no field.  Stated of every frame handled.
C16_Validator ==
    \A i \in 1..Len(frames) :
        LET frame == frames[i][2]
        IN  validate_message(frame.type, frame.fields).ok
                = StatedRule(frame.type, frame.fields)

----------------------------------------------------------------------------
(* Saves of different documents *)

\* A step has acted on the save of document d: its entry in debounced_saves
\* was added, replaced or removed, one of its tasks was created or changed
\* state, or a write for it reached storage.
SaveTouched(d) ==
    \/ (d \in DOMAIN debounced_saves) # (d \in DOMAIN debounced_saves')
    \/ /\ d \in DOMAIN debounced_saves
       /\ d \in DOMAIN debounced_saves'
       /\ debounced_saves[d] # debounced_saves'[d]
    \/ \E t \in 1..Len(tasks') :
          /\ tasks'[t].doc = d
          /\ IF t > Len(tasks) THEN TRUE ELSE tasks'[t] # tasks[t]
    \/ \E i \in (Len(writes) + 1)..Len(writes') : writes'[i].diagram_id = d

\* Task t ends its sleep in this step and runs its write.
Fires(t) == tasks[t].state = "sleeping" /\ tasks'[t].state = "finished"

----------------------------------------------------------------------------
(* Saves that fire while their session is open *)

\* Two participants of document d1 send diagram_update frames while the
\* clock runs past two debounce delays, storage succeeds or raises, and the
\* table changes under the pending saves.
MaxFireFrames == 2
MaxFireDelays == 2
FireMaxTime == MaxFireDelays * DebounceDelay

TickFire == Tick(FireMaxTime, DebounceDelay)

FireConnect(ws) == Connect(ws, "d1", Jwt(TRUE, UserOf(ws)))

FireUpdate(ws, p) == Handle(ws, UpdateFrame(p), MaxFireFrames, MaxTasks)

NextFire ==
    \/ \E ws \in Pair : FireConnect(ws)
    \/ \E ws \in Pair : BroadcastStep(ws)
    \/ \E ws \in Pair, p \in Payloads : FireUpdate(ws, p)
    \/ \E t \in 1..MaxTasks, storage_ok \in BOOLEAN : FireSave(t, storage_ok)
    \/ \E t \in 1..MaxTasks : CancelDelivered(t)
    \/ StorageChange
    \/ TickFire

SpecFire == Init /\ [][NextFire]_vars

\* The firing of task t did not end in a successful write: update_diagram
\* raised, the payload was no object, or the document was not found.
FailedSave(t) ==
    /\ tasks[t].state = "finished"
    /\ \A i \in 1..Len(writes) : writes[i].task = t => ~writes[i].ok

\* C18: when the timer of a task fires, the entry of its document is removed
\* in that step, whatever the write did, and the step changes no handler and
\* delivers no envelope; no entry names a finished task; a diagram_update
\* that is saved creates the entry of a new sleeping task, and every task
\* that fires, one scheduled after a failed save included, issues its one
\* write when its payload is an object and its caller resolves the document.
C18_EntryRemoved ==
    /\ [](\A d \in DOMAIN debounced_saves :
             tasks[debounced_saves[d].task].state # "finished")
    /\ [](\A t \in 1..Len(tasks) :
             tasks[t].state = "finished" =>
                 /\ Written(t) = (IF tasks[t].data.t = "obj" /\ tasks[t].resolved
                                  THEN 1 ELSE 0)
                 /\ CarriesOwnPayload(t))
    /\ [][ /\ \A t \in 1..Len(tasks) :
                 Fires(t) => /\ tasks[t].doc \notin DOMAIN debounced_saves'
                             /\ UNCHANGED connVars
           /\ Len(tasks') > Len(tasks) =>
                 LET s == Len(tasks')
                 IN  /\ tasks'[s].state = "sleeping"
                     /\ tasks'[s].doc \in DOMAIN debounced_saves'
                     /\ debounced_saves'[tasks'[s].doc].task = s
         ]_vars

\* A save failed, its entry is gone, and a later diagram_update of the same
\* document scheduled a save that fired and wrote.
C18_Witness ==
    \E t \in 1..Len(tasks), s \in 1..Len(tasks) :
        /\ t < s
        /\ tasks[s].doc = tasks[t].doc
        /\ FailedSave(t)
        /\ tasks[s].state = "finished"
        /\ Written(s) = 1
        /\ \E i \in 1..Len(writes) : writes[i].task = s /\ writes[i].ok
        /\ tasks[t].doc \notin DOMAIN debounced_saves
        /\ Len(frames) = 2

----------------------------------------------------------------------------
(* Leaving and the other connections *)

\* The handler of ws enters its finally block in this step.
Leaves(ws) == h[ws].pc = "active" /\ h'[ws].pc \in {"leaving", "closed"}

\* C19: the step in which a connection leaves removes exactly its own entry
\* from the session of its document: every other websocket registered for
\* that document is still registered after the step, and the sessions of the
\* other documents are as they were.
C19_LeaveOnlyOwn ==
    [][ \A ws \in WebSockets :
           Leaves(ws) =>
              \A d \in Docs :
                 Registered(active_connections', d) =
                    Registered(active_connections, d) \
                       (IF d = h[ws].doc THEN {ws} ELSE {})
      ]_vars

----------------------------------------------------------------------------
(* The broadcaster and its caller *)

\* C20: every notify_collaborators call that has ended returned normally;
\* the connections whose send failed are no longer registered for the
\* document when it returns; and every other connection that was registered
\* from its beginning to its end, and is not of the excluded participant,
\* was sent the message, whatever joins, leaves and broadcasts ran between
\* its sends.
C20_NotifyAbsorbs ==
    \A w \in WebSockets :
        LET b == h[w].last
        IN  b.status # "none" =>
               /\ b.status = "ok"
               /\ Failed(b) \cap b.left = {}
               /\ \A c \in b.throughout \ Failed(b) :
                     ~Excluded(b, c) => Occurrences(b.tried, c) >= 1

----------------------------------------------------------------------------
(* Refused connection attempts *)

\* The connection attempt of ws ends in this step without registering.
Refused(ws) == h[ws].pc = "new" /\ h'[ws].pc = "closed" /\ ~h'[ws].registered

\* C21: a connection attempt that ends without reaching Active leaves
\* active_connections, user_rate_limiters and debounced_saves as they were,
\* whatever connections are registered for the document, and delivers no
\* envelope to any other connection.
C21_NoSessionState ==
    [][ \A ws \in WebSockets :
           Refused(ws) =>
              /\ active_connections' = active_connections
              /\ user_rate_limiters' = user_rate_limiters
              /\ debounced_saves' = debounced_saves
              /\ \A c \in WebSockets \ {ws} : sent'[c] = sent[c]
      ]_vars

----------------------------------------------------------------------------
(* Cursor movement *)

\* The step handles a cursor_move frame.
HandlesCursor ==
    /\ Len(frames') = Len(frames) + 1
    /\ frames'[Len(frames')][2].type = "cursor_move"

\* C22: no cursor_move envelope is delivered to a connection of the
\* participant who sent it; when the broadcast of an admitted cursor_move
\* has ended, every connection of another participant that was registered
\* for the document throughout was sent the envelope once; and a step that
\* handles a cursor_move leaves the pending saves, their tasks and the
\* storage writes as they were.
C22_CursorMove ==
    /\ [](\A ws \in WebSockets : \A e \in DOMAIN sent[ws] :
             e.type = "cursor_move" =>
                 e.bid[1] # ws /\ h[e.bid[1]].user_id # h[ws].user_id)
    /\ [](\A w \in WebSockets :
             LET b == h[w].last
             IN  (b.status # "none" /\ b.msg.type = "cursor_move") =>
                    \A c \in b.throughout :
                       h[c].user_id # h[w].user_id => Occurrences(b.tried, c) = 1)
    /\ [][HandlesCursor => UNCHANGED <<debounced_saves, tasks, writes>>]_vars

----------------------------------------------------------------------------
(* The permission decision table *)

Actions == {"read", "update", "delete", "share"}

\* The decision the table states, read off the diagrams table directly.
StatedDecision(user_id, diagram_id, action) ==
    IF diagram_id \notin DOMAIN diagrams THEN FALSE
    ELSE IF diagrams[diagram_id].userId = user_id THEN TRUE
    ELSE IF user_id \notin DOMAIN diagrams[diagram_id].collaborators THEN FALSE
    ELSE IF diagrams[diagram_id].collaborators[user_id] = "edit" THEN TRUE
    ELSE action = "read"

\* The PERMISSION_DENIED envelope newly delivered to ws in this step carries
\* the message msg.
DeniedWith(ws, msg) ==
    \E e \in Errors(ws)' :
        /\ e.code = "PERMISSION_DENIED"
        /\ e.message = msg
        /\ sent'[ws][e] = Delivered(ws, e) + 1

\* The connection attempt of ws passes the token checks in this step: the
\* participant is known and the access check is made.
AtAccessCheck(ws) == h[ws].pc = "new" /\ h'[ws].user_id \in Users

----------------------------------------------------------------------------
(* Admission checks of several limiters *)

\* Two participants and two message types share the limiter map: the pairs
\* differ in the participant, in the type, or in both.
AdmitPairs == {<<"u1", "ping">>, <<"u2", "ping">>, <<"u1", "chat">>}

\* One admission check (lines 382-383) of any pair.
AdmitCheck(u, mt) ==
    /\ LET r == ApplyRateLimit(u, mt)
       IN  /\ user_rate_limiters' = r.limiters
           /\ admitted' = r.admitted
    /\ UNCHANGED <<recVars, now, storeVars, saveVars, connVars>>

NextAdmit ==
    \/ \E p \in AdmitPairs : AdmitCheck(p[1], p[2])
    \/ TickRL

SpecAdmit == InitRL /\ [][NextAdmit]_vars

\* The timestamps a pair's limiter holds, none when it has no limiter yet.
Recorded(limiters, k) ==
    IF k \in LimiterPairs(limiters) THEN limiters[k[1]][k[2]].timestamps ELSE << >>

\* The admissions of a pair the history holds.
Admissions(hist, k) == IF k \in DOMAIN hist THEN hist[k] ELSE << >>

\* The pair's limiter was created or its timestamps changed in this step.
LimiterTouched(k) ==
    \/ (k \in LimiterPairs(user_rate_limiters)) # (k \in LimiterPairs(user_rate_limiters'))
    \/ Recorded(user_rate_limiters, k) # Recorded(user_rate_limiters', k)

\* C24: is_allowed, applied to any limiter at the current time, returns True
\* iff the timestamps left after evicting those outside the trailing
\* one-second window are fewer than max_per_second + burst_allowance, and
\* then records the current time, and on rejection records nothing; a check
\* changes the limiter of one pair only, leaves it with the evicted list (and
\* the current time when admitted), and adds an admission to the history of
\* that pair exactly when it admits.
C24_AdmissionPolicy ==
    /\ [](\A k \in LimiterPairs(user_rate_limiters) :
             LET rl == user_rate_limiters[k[1]][k[2]]
                 kept == InWindow(rl.timestamps, now)
                 r == is_allowed(rl, now)
             IN  /\ rl.max_per_second + rl.burst_allowance = Cap(k[2])
                 /\ r.ok = (Len(kept) < Cap(k[2]))
                 /\ r.limiter.timestamps = IF r.ok THEN Append(kept, now) ELSE kept)
    /\ [][ now' = now =>
              /\ Cardinality({k \in Users \X MessageTypes : LimiterTouched(k)}) <= 1
              /\ \A k \in Users \X MessageTypes :
                    LET kept == InWindow(Recorded(user_rate_limiters, k), now)
                        admit == Len(kept) < Cap(k[2])
                    IN  IF LimiterTouched(k)
                        THEN /\ Recorded(user_rate_limiters', k) =
                                   IF admit THEN Append(kept, now) ELSE kept
                             /\ Len(Admissions(admitted', k)) =
                                   Len(InWindow(Admissions(admitted, k), now))
                                      + (IF admit THEN 1 ELSE 0)
                        ELSE Admissions(admitted', k) = Admissions(admitted, k)
         ]_vars

\* One pair was rejected at its cap after an eviction, while another pair of
\* the same participant and another pair of the same type hold timestamps
\* recorded earlier.
C24_Witness ==
    /\ AdmitPairs \subseteq LimiterPairs(user_rate_limiters)
    /\ Len(Recorded(user_rate_limiters, <<"u1", "chat">>)) = Cap("chat")
    /\ \E i \in 1..Cap("chat") :
          Recorded(user_rate_limiters, <<"u1", "chat">>)[i] = now
    /\ Recorded(user_rate_limiters, <<"u1", "chat">>)[1] < now
    /\ Recorded(user_rate_limiters, <<"u1", "ping">>) = <<0>>
    /\ Recorded(user_rate_limiters, <<"u2", "ping">>) # << >>
    /\ now = RLMaxTime

----------------------------------------------------------------------------
(* ConfidenceBasedFilter.filter *)

\* Confidences are in tenths (6 is 0.6).  A recommendation is a dict that
\* may lack any of its fields.
MaxRecs == 3
Titles == {"Add Database", "add database", "Add Cache"}
Confidences == {5, 6, 7}
Priorities == {1, 2}
Thresholds == {0, 6, 7}

\* str.lower() on the titles above ("" stays "").
lower(title) ==
    IF title \in {"Add Database", "add database"} THEN "add database"
    ELSE IF title = "Add Cache" THEN "add cache"
    ELSE title

\* The dicts with at most one field `key`, holding one of `values`.
Field(key, values) == {EmptyDict} \cup {[k \in {key} |-> v] : v \in values}

\* The dicts whose fields, where present, hold values of their kind.
Recommendations ==
    {t @@ c @@ p : t \in Field("title", Titles),
                   c \in Field("confidence", Confidences),
                   p \in Field("priority", Priorities)}

\* rec.get(key, default)
rec_get(rec, key, default) == IF key \in DOMAIN rec THEN rec[key] ELSE default

\* Lines 37-39: the items at or above the threshold, in input order.
above_threshold(recs, t) ==
    SelectSeq(recs, LAMBDA rec : rec_get(rec, "confidence", 0) >= t)

\* A de-duplication that compares the titles as they are written.
unique_titles_exact(recs) ==
    LET F[i \in 0..Len(recs)] ==
            IF i = 0 THEN << >>
            ELSE IF \E j \in 1..Len(F[i - 1]) :
                       rec_get(F[i - 1][j], "title", "") = rec_get(recs[i], "title", "")
                 THEN F[i - 1]
                 ELSE Append(F[i - 1], recs[i])
    IN  F[Len(recs)]

\* Lines 42-48: the first item of each lower-cased title, in input order.
unique_titles(recs) ==
    LET F[i \in 0..Len(recs)] ==
            IF i = 0 THEN << >>
            ELSE IF \E j \in 1..Len(F[i - 1]) :
                       lower(rec_get(F[i - 1][j], "title", "")) =
                           lower(rec_get(recs[i], "title", ""))
                 THEN F[i - 1]
                 ELSE Append(F[i - 1], recs[i])
    IN  F[Len(recs)]

\* The sort key of line 52 of a is greater than or equal to that of b.
key_ge(a, b) ==
    LET ca == rec_get(a, "confidence", 0)
        cb == rec_get(b, "confidence", 0)
    IN  \/ ca > cb
        \/ ca = cb /\ rec_get(a, "priority", 0) >= rec_get(b, "priority", 0)

\* Lines 51-53: list.sort(key, reverse=True), a stable sort: items of equal
\* key keep their order.
sort_reverse(recs) ==
    LET insert(sorted, rec) ==
            LET before == {j \in 1..Len(sorted) : key_ge(sorted[j], rec)}
                n == Cardinality(before)
            IN  SubSeq(sorted, 1, n) \o <<rec>> \o SubSeq(sorted, n + 1, Len(sorted))
        F[i \in 0..Len(recs)] ==
            IF i = 0 THEN << >> ELSE insert(F[i - 1], recs[i])
    IN  F[Len(recs)]

\* ConfidenceBasedFilter.filter
filter(recs, t) == sort_reverse(unique_titles(above_threshold(recs, t)))

\* One call of filter on the list and threshold the caller passes.
Filter ==
    /\ ~filtered.returned
    /\ filtered' = [returned |-> TRUE, list |-> filter(recommendations, threshold)]
    /\ UNCHANGED <<now, rlVars, storeVars, saveVars, connVars, recommendations, threshold>>

InitFilter ==
    /\ InitModule
    /\ recommendations \in UNION {[1..n -> Recommendations] : n \in 0..MaxRecs}
    /\ threshold \in Thresholds
    /\ filtered = [returned |-> FALSE, list |-> << >>]

NextFilter == Filter

SpecFilter == InitFilter /\ [][NextFilter]_vars

\* The confidence, priority and title of an item as the filter reads them.
Confidence(rec) == IF "confidence" \in DOMAIN rec THEN rec["confidence"] ELSE 0
Priority(rec) == IF "priority" \in DOMAIN rec THEN rec["priority"] ELSE 0
Title(rec) == IF "title" \in DOMAIN rec THEN rec["title"] ELSE ""

\* Two titles are equal ignoring case.
EqualIgnoringCase(a, b) ==
    a = b \/ {a, b} = {"Add Database", "add database"}

\* C25: the list filter returns holds only input items whose confidence is
\* at or above the threshold (the boundary value included), no two items
\* whose titles are equal ignoring case, exactly one item for every title
\* (ignoring case) that an input item at or above the threshold carries, and
\* is ordered by confidence descending, ties by priority descending.
C25_Filter ==
    filtered.returned =>
        LET out == filtered.list
        IN  /\ \A i \in 1..Len(out) :
                  /\ \E j \in 1..Len(recommendations) : recommendations[j] = out[i]
                  /\ Confidence(out[i]) >= threshold
            /\ \A i, j \in 1..Len(out) :
                  i # j => ~EqualIgnoringCase(Title(out[i]), Title(out[j]))
            /\ \A j \in 1..Len(recommendations) :
                  Confidence(recommendations[j]) >= threshold =>
                      Cardinality({i \in 1..Len(out) :
                          EqualIgnoringCase(Title(out[i]), Title(recommendations[j]))}) = 1
            /\ \A i \in 1..Len(out) : \A j \in 1..Len(out) :
                  i < j =>
                      \/ Confidence(out[i]) > Confidence(out[j])
                      \/ /\ Confidence(out[i]) = Confidence(out[j])
                         /\ Priority(out[i]) >= Priority(out[j])

\* The call was given an item at the threshold, then an item of higher
\* confidence whose title differs from the first in case only, then an item
\* of another title and higher confidence: the third and the first were
\* returned, in that order.
C25_Witness ==
    /\ filtered.returned
    /\ threshold = 6
    /\ Len(recommendations) = 3
    /\ Title(recommendations[1]) = "Add Database"
    /\ Title(recommendations[2]) = "add database"
    /\ Title(recommendations[3]) = "Add Cache"
    /\ Confidence(recommendations[1]) = threshold
    /\ Confidence(recommendations[2]) > threshold
    /\ Confidence(recommendations[3]) > threshold
    /\ filtered.list = <<recommendations[3], recommendations[1]>>

----------------------------------------------------------------------------
(* Distinct participants on the same and on different documents *)

\* Each websocket logs in as its own participant and may open either
\* document.
NextDocs ==
    \/ \E ws \in WebSockets, d \in Docs : Connect(ws, d, Jwt(TRUE, UserOf(ws)))
    \/ \E ws \in WebSockets : BroadcastStep(ws)
    \/ \E ws \in WebSockets, frame \in Frames : HandleFrame(ws, frame)
    \/ \E ws \in WebSockets : TransportFail(ws)
    \/ \E ws \in WebSockets : Disconnect(ws)

SpecDocs == Init /\ [][NextDocs]_vars


\* The websocket registers in this step (lines 260-263).
Registers(ws, d) == h[ws].pc = "new" /\ h'[ws].registered /\ h'[ws].doc = d

\* The handler of the websocket enters its finally block in this step.
EntersFinally(ws) ==
    h[ws].pc \notin {"leaving", "closed"} /\ h'[ws].pc \in {"leaving", "closed"}

\* A broadcast on document d that met a failed send to the websocket
\* returns in this step.
PrunedNow(ws, d) ==
    \E w \in WebSockets :
        /\ InBroadcast(h[w])
        /\ h[w].bc.doc = d
        /\ h'[w].last.bid = h[w].bc.bid
        /\ ws \in Failed(h'[w].last)

\* The session of the document changes in this step.
SessionChanged(d) == Registered(active_connections', d) # Registered(active_connections, d)

\* C26: with every connection of a participant of its own, a connection
\* enters the session of a document only in the step in which it registers
\* for it, and a registering connection does enter; it leaves the session
\* only in the step in which its handler enters its finally block or a
\* broadcast that met a failed send to it returns, and in those steps it
\* does leave; a step changes the session of one document at most; a
\* registered connection whose transport works and whose handler is in its
\* loop is in the session of its document, and no connection is in a session
\* twice, in the session of another document, or after its handler left.
C26_SessionIntegrity ==
    /\ [](\A ws \in WebSockets :
             /\ (h[ws].registered /\ alive[ws] /\ h[ws].pc \notin {"leaving", "closed"})
                   => ws \in Registered(active_connections, h[ws].doc)
             /\ \A d \in DOMAIN active_connections :
                   /\ Occurrences([i \in 1..Len(active_connections[d]) |->
                                      active_connections[d][i][1]], ws) <= 1
                   /\ ws \in Registered(active_connections, d) =>
                         /\ h[ws].doc = d
                         /\ h[ws].registered
                         /\ h[ws].pc \notin {"leaving", "closed"})
    /\ [][ /\ Cardinality({d \in Docs : SessionChanged(d)}) <= 1
           /\ \A ws \in WebSockets, d \in Docs :
                 /\ Registers(ws, d) => ws \in Registered(active_connections', d)
                 /\ (ws \in Registered(active_connections', d)
                        /\ ws \notin Registered(active_connections, d)) => Registers(ws, d)
                 /\ (ws \in Registered(active_connections, d)
                        /\ ws \notin Registered(active_connections', d)) =>
                       (EntersFinally(ws) \/ PrunedNow(ws, d))
                 /\ (ws \in Registered(active_connections, d)
                        /\ (EntersFinally(ws) \/ PrunedNow(ws, d))) =>
                       ws \notin Registered(active_connections', d)
         ]_vars

\* A connection is in the session of d1, another has been pruned from a
\* session by a broadcast, and a third has registered for d2 and left.
C26_Witness ==
    /\ \E ws \in WebSockets :
          ws \in Registered(active_connections, "d1") /\ alive[ws]
    /\ \E ws \in WebSockets :
          /\ h[ws].registered /\ h[ws].pc = "closed" /\ h[ws].doc = "d2"
    /\ \E ws \in WebSockets, w \in WebSockets :
          /\ h[ws].registered /\ h[ws].pc \notin {"leaving", "closed"}
          /\ ws \in Failed(h[w].last) /\ h[w].last.status = "ok"
          /\ ws \notin Registered(active_connections, h[ws].doc)

----------------------------------------------------------------------------
(* The stages of the message loop *)

\* The timestamps the limiter of (user_id, message_type) holds, none when
\* the pair has no limiter.
TimestampsOf(limiters, user_id, message_type) ==
    IF user_id \in DOMAIN limiters /\ message_type \in DOMAIN limiters[user_id]
    THEN limiters[user_id][message_type].timestamps
    ELSE << >>

\* The step delivers no PERMISSION_DENIED envelope to ws.
NoGateReply(ws) ==
    \A e \in Errors(ws)' : e.code = "PERMISSION_DENIED" => sent'[ws][e] = Delivered(ws, e)

\* C27: a frame that is a JSON object passes the validator, then the
\* limiter, then (diagram_update only) the permission gate, then the
\* broadcaster and the scheduler, and stops at the first stage that refuses
\* it: refused by the validator it leaves every limiter as it was; past the
\* validator its limiter is read and, when it admits, records the time;
\* rejected by the limiter it gets no answer of the gate, starts no
\* broadcast and schedules no save; a diagram_update the gate denies is
\* answered with PERMISSION_DENIED, not broadcast and not scheduled; one the
\* gate allows is scheduled and broadcast, and an admitted cursor_move is
\* broadcast.
C27_StageOrder ==
    [][\A ws \in WebSockets :
          (Handles(ws) /\ Handled.json = "object" /\ Hashable(Handled.type)) =>
             LET u == h[ws].user_id
                 d == h[ws].doc
                 type == Handled.type
                 valid == validate_message(type, Handled.fields).ok
                 kept == InWindow(TimestampsOf(user_rate_limiters, u, type), now)
                 admit == Len(kept) < Cap(type)
                 allowed == StatedDecision(u, d, "update")
             IN  /\ ~valid =>
                       /\ user_rate_limiters' = user_rate_limiters
                       /\ OneReply(ws, "error", "INVALID_MESSAGE_FORMAT")
                       /\ StaysActive(ws)
                 /\ valid =>
                       TimestampsOf(user_rate_limiters', u, type) =
                           IF admit THEN Append(kept, now) ELSE kept
                 /\ (valid /\ ~admit) => NoGateReply(ws) /\ StaysActive(ws)
                 /\ (valid /\ admit /\ type = "diagram_update" /\ ~allowed) =>
                       /\ OneReply(ws, "error", "PERMISSION_DENIED")
                       /\ StaysActive(ws)
                 /\ (valid /\ admit /\ type = "diagram_update" /\ allowed) =>
                       /\ Len(tasks') = Len(tasks) + 1
                       /\ h'[ws].nbc = h[ws].nbc + 1
                 /\ (valid /\ admit /\ type = "cursor_move") =>
                       /\ h'[ws].nbc = h[ws].nbc + 1
                       /\ UNCHANGED <<debounced_saves, tasks, writes>>
      ]_vars

\* A participant with READ permission sent sixteen diagram_update frames
\* within one instant: the gate refused fifteen, and the limiter refused the
\* sixteenth before the gate saw it.
C27_Witness ==
    /\ Len(frames) = UpdateRate + UpdateBurst + 1
    /\ \A i \in 1..Len(frames) : frames[i] = <<"ws1", UpdateFrame(PayloadA)>>
    /\ ~StatedDecision(h["ws1"].user_id, h["ws1"].doc, "update")
    /\ SumDelivered("ws1", {e \in Errors("ws1") : e.code = "PERMISSION_DENIED"})
          = UpdateRate + UpdateBurst
    /\ SumDelivered("ws1", {e \in Errors("ws1") : e.code = "RATE_LIMIT_EXCEEDED"}) = 1
    /\ tasks = << >>
    /\ h["ws1"].pc = "active"

----------------------------------------------------------------------------
(* The write of a save that fires *)

\* The participant is the owner of the document or one of its collaborators
\* in the diagrams table as it is now.
StillShared(user_id, diagram_id) ==
    /\ diagram_id \in DOMAIN diagrams
    /\ \/ diagrams[diagram_id].userId = user_id
       \/ user_id \in DOMAIN diagrams[diagram_id].collaborators

\* C28 as stated: every save that has fired (its payload an object, its
\* participant allowed to edit when it was scheduled) has issued exactly one
\* update_diagram call, under the id of the document's owner.
C28_EveryAcceptedSaveWrites ==
    \A t \in 1..Len(tasks) :
        (tasks[t].state = "finished" /\ tasks[t].data.t = "obj") =>
            \E i \in 1..Len(writes) :
                /\ writes[i].task = t
                /\ writes[i].user_id = InitDiagrams[tasks[t].doc].userId
                /\ \A j \in 1..Len(writes) : writes[j].task = t => j = i

\* C28 as amended: when the timer of a task fires, one update_diagram call
\* is issued if the payload is an object and the scheduling participant is
\* then the owner of the document or one of its collaborators, and no call
\* otherwise; the call is made under the id of the document's owner, whether
\* the participant is the owner or a collaborator, for that document, with
\* the payload of the task.
C28_OwnerResolved ==
    [][\A t \in 1..Len(tasks) :
          Fires(t) =>
             LET u == tasks[t].user_id
                 d == tasks[t].doc
             IN  IF tasks[t].data.t = "obj" /\ StillShared(u, d)
                 THEN /\ Len(writes') = Len(writes) + 1
                      /\ SubSeq(writes', 1, Len(writes)) = writes
                      /\ LET w == writes'[Len(writes')]
                         IN  /\ w.task = t
                             /\ w.user_id = diagrams[d].userId
                             /\ w.diagram_id = d
                             /\ w.nodes = Get(tasks[t].data.f, "nodes")
                             /\ w.edges = Get(tasks[t].data.f, "edges")
                             /\ w.title = Get(tasks[t].data.f, "title")
                             /\ w.description = Get(tasks[t].data.f, "description")
                 ELSE writes' = writes
      ]_vars

\* The save of an owner and the save of a collaborator have both fired and
\* written, each under the id of its document's owner.
C28_Witness ==
    \E t \in 1..Len(tasks), s \in 1..Len(tasks) :
        /\ tasks[t].state = "finished" /\ tasks[s].state = "finished"
        /\ tasks[t].user_id = InitDiagrams[tasks[t].doc].userId
        /\ tasks[s].user_id # InitDiagrams[tasks[s].doc].userId
        /\ \E i \in 1..Len(writes), j \in 1..Len(writes) :
              /\ writes[i].task = t /\ writes[i].user_id = tasks[t].user_id
              /\ writes[j].task = s /\ writes[j].user_id = InitDiagrams[tasks[s].doc].userId
              /\ writes[j].ok

----------------------------------------------------------------------------
(* The first envelope of a new connection *)

\* C29: the first envelope delivered to a connection that joined its
\* session is its welcome: no diagram_update, cursor_move, user_joined or
\* user_left of another connection is delivered to it before.
C29_WelcomeFirst ==
    \A ws \in WebSockets :
        (h[ws].registered /\ h[ws].first # None) =>
            h[ws].first \notin {"diagram_update", "cursor_move",
                                "user_joined", "user_left"}

----------------------------------------------------------------------------
(* Saves whose participants have left *)

\* Every connection of the participant who scheduled task t has ended.
SchedulerGone(t) ==
    \A ws \in Pair : h[ws].user_id = tasks[t].user_id => h[ws].pc = "closed"

\* The timer of a task fires after its scheduling participant disconnected:
\* the task of save_after_delay belongs to the event loop, not to the handler
\* that created it (line 167), and the finally block of the handler (lines
\* 484-504) does not reach it.
GoneFire(t, storage_ok) ==
    /\ t \in 1..Len(tasks)
    /\ SchedulerGone(t)
    /\ FireSave(t, storage_ok)

\* Two participants edit document d1, their connections are lost and their
\* handlers leave, and the saves they scheduled fire afterwards.
NextGone ==
    \/ \E ws \in Pair : FireConnect(ws)
    \/ \E ws \in Pair : BroadcastStep(ws)
    \/ \E ws \in Pair, p \in Payloads : FireUpdate(ws, p)
    \/ \E ws \in Pair : TransportFail(ws)
    \/ \E ws \in Pair : Disconnect(ws)
    \/ \E t \in 1..MaxTasks, storage_ok \in BOOLEAN : GoneFire(t, storage_ok)
    \/ \E t \in 1..MaxTasks : CancelDelivered(t)
    \/ TickFire

SpecGone == Init /\ [][NextGone]_vars

\* C30: a step in which a handler enters its finally block changes no
\* pending save, no task and no write; a sleeping task stops sleeping only by
\* firing or in the step of a later schedule call for its own document, and
\* such a call does cancel it; a task whose timer has run out can fire
\* whoever is connected; and a task that fires after its scheduler left (the
\* other participants gone or not) removes the entry of its document and, its
\* payload being an object, issues its write with the payload it was
\* scheduled with.
C30_DisconnectKeepsSave ==
    /\ [](\A t \in 1..Len(tasks) :
             (tasks[t].state = "sleeping" /\ TimerExpired(t)) =>
                 ENABLED FireSave(t, TRUE))
    /\ [][ /\ (\E ws \in WebSockets : EntersFinally(ws)) =>
                 UNCHANGED <<debounced_saves, tasks, writes>>
           /\ \A t \in 1..Len(tasks) :
                 (tasks[t].state = "sleeping" /\ tasks'[t].state # "sleeping") =>
                    \/ Fires(t)
                    \/ /\ tasks'[t].state = "cancelling"
                       /\ Len(tasks') = Len(tasks) + 1
                       /\ tasks'[Len(tasks')].doc = tasks[t].doc
           /\ \A t \in 1..Len(tasks) :
                 ( /\ Len(tasks') > Len(tasks)
                   /\ tasks[t].state = "sleeping"
                   /\ tasks'[Len(tasks')].doc = tasks[t].doc ) =>
                      tasks'[t].state = "cancelling"
           /\ \A t \in 1..Len(tasks) :
                 (Fires(t) /\ SchedulerGone(t)) =>
                    /\ now - tasks[t].created >= DebounceDelay
                    /\ tasks[t].doc \notin DOMAIN debounced_saves'
                    /\ tasks[t].data.t = "obj" =>
                          /\ Len(writes') = Len(writes) + 1
                          /\ writes'[Len(writes')].task = t
                          /\ writes'[Len(writes')].diagram_id = tasks[t].doc
                          /\ writes'[Len(writes')].nodes = Get(tasks[t].data.f, "nodes")
                          /\ writes'[Len(writes')].title = Get(tasks[t].data.f, "title")
         ]_vars

\* Both participants scheduled a save of d1 and both connections have ended;
\* the first save fired after its scheduler left while the other participant
\* was still connected, the second after everyone had left and the session
\* of d1 was gone; both wrote and no entry is left.
C30_Witness ==
    /\ Len(tasks) = 2
    /\ tasks[1].user_id # tasks[2].user_id
    /\ \A t \in 1..2 :
          /\ tasks[t].state = "finished"
          /\ \E i \in 1..Len(writes) : writes[i].task = t /\ writes[i].ok
    /\ \A ws \in Pair : h[ws].pc = "closed" /\ h[ws].registered
    /\ "d1" \notin DOMAIN active_connections
    /\ debounced_saves = EmptyDict

====
